---- MODULE Spec2Model ----
(***************************************************************************)
(* A model of the component / property-binding base                        *)
(* (src/src/framework/components/component.js), of the animation component *)
(* (src/unnamed/part_001, class AnimComponent), of the model component     *)
(* (src/src/framework/components/model/component.js) and of the layout     *)
(* calculator (src/src/framework/components/layout-group/                  *)
(* layout-calculator.js).                                                  *)
(*                                                                         *)
(* JavaScript values are written as strings ("true", "false", "0", "1",    *)
(* "0.5", "null"), so that a property or a parameter can hold a value of   *)
(* any type, as it can in the source.                                      *)
(***************************************************************************)
EXTENDS Integers, Sequences, FiniteSets, TLC

VARIABLES
    store,          \* system.store: entity guid -> [data: property name -> value]
    entityEnabled,  \* entity.enabled of the entity the component is attached to
    fired,          \* the events fired by the last operation, in order
    hooks,          \* the onEnable / onDisable hooks invoked by the last operation
    lastHook,       \* the last hook invoked since entity.enabled last changed
    call,           \* the last operation invoked, with its arguments
    anim,           \* the fields of the AnimComponent
    heap,           \* the parameter objects {type, value}: reference -> record
    assets,         \* the asset registry: asset id -> resource and listeners
    trace,          \* the steps of the last update(dt), in order
    threw,          \* whether the last operation raised an exception
    scene,          \* the model components, the models, the asset registry
    layout          \* the input and the result of the last calculateLayout

compVars == <<store, entityEnabled, fired, hooks, lastHook>>

animVars == <<anim, heap, assets, trace, threw>>

restVars == <<scene, layout>>

vars == <<store, entityEnabled, fired, hooks, lastHook, call,
          anim, heap, assets, trace, threw, scene, layout>>

(***************************************************************************)
(* Component base                                                          *)
(***************************************************************************)

\* the guid of the entity the component is attached to
Guid == "e1"

\* _schema of the scrollbar component system: the property names, in order
Schema == <<"enabled", "orientation", "value", "handleSize", "handleEntity">>

SchemaNames == {Schema[i] : i \in DOMAIN Schema}

\* the values written to each property (the declared type of each descriptor)
PropValues(name) ==
    CASE name = "enabled" -> {"true", "false"}
      [] name = "handleEntity" -> {"null", "e2"}
      [] OTHER -> {"0", "1"}

\* JavaScript truthiness of a value, as `if (newValue)` tests it
Truthy(v) == v \notin {"false", "0", "null", "undefined", ""}

NoCall == [op |-> "none"]

\* get data(): `record ? record.data : null`; DataIsNull is the null result
DataIsNull == Guid \notin DOMAIN store

Data == store[Guid].data

\* onSetEnabled without the comparison of the old and the new value
onSetEnabledNoEdge(name, oldValue, newValue) ==
    IF entityEnabled
    THEN IF Truthy(newValue) THEN <<"onEnable">> ELSE <<"onDisable">>
    ELSE <<>>

\* onSetEnabled(name, oldValue, newValue): the hooks it invokes
onSetEnabled(name, oldValue, newValue) ==
    IF oldValue # newValue
    THEN IF entityEnabled
         THEN IF Truthy(newValue) THEN <<"onEnable">> ELSE <<"onDisable">>
         ELSE <<>>
    ELSE <<>>

\* a constructor that does not register the listener re-firing 'set_<name>'
FireSetNoRefire(name, oldValue, newValue) ==
    << <<"set", name, oldValue, newValue>> >>

\* the listeners the constructor registers: 'set' re-fires 'set_<name>', and
\* 'set_enabled' runs onSetEnabled. The events delivered, in order.
FireSet(name, oldValue, newValue) ==
    << <<"set", name, oldValue, newValue>>,
       <<"set_" \o name, name, oldValue, newValue>> >>

HooksOfSet(name, oldValue, newValue) ==
    IF name = "enabled" THEN onSetEnabled(name, oldValue, newValue) ELSE <<>>

\* a setter that returns early, firing nothing, when the value is the one held
SetPropertyIfChanged(name, value) ==
    /\ ~DataIsNull
    /\ LET oldValue == Data[name]
           called == HooksOfSet(name, oldValue, value)
       IN  /\ store' = [store EXCEPT ![Guid].data[name] = value]
           /\ fired' = IF oldValue = value THEN <<>> ELSE FireSet(name, oldValue, value)
           /\ hooks' = IF oldValue = value THEN <<>> ELSE called
           /\ lastHook' = IF called # <<>> THEN called[Len(called)] ELSE lastHook
    /\ call' = [op |-> "set", name |-> name, value |-> value]
    /\ UNCHANGED <<entityEnabled, animVars, restVars>>

\* the setter _buildAccessors defines for the property `name`
SetProperty(name, value) ==
    /\ ~DataIsNull
    /\ LET oldValue == Data[name]
           called == HooksOfSet(name, oldValue, value)
       IN  /\ store' = [store EXCEPT ![Guid].data[name] = value]
           /\ fired' = FireSet(name, oldValue, value)
           /\ hooks' = called
           /\ lastHook' = IF called # <<>> THEN called[Len(called)] ELSE lastHook
    /\ call' = [op |-> "set", name |-> name, value |-> value]
    /\ UNCHANGED <<entityEnabled, animVars, restVars>>

\* the entity is enabled or disabled (entity.enabled, read by onSetEnabled)
SetEntityEnabled(v) ==
    /\ entityEnabled # v
    /\ entityEnabled' = v
    /\ lastHook' = "none"
    /\ fired' = <<>>
    /\ hooks' = <<>>
    /\ call' = [op |-> "entityEnabled", value |-> v]
    /\ UNCHANGED <<store, animVars, restVars>>

\* the data a component is given when its system stores its record
InitialData ==
    [n \in SchemaNames |->
        CASE n = "enabled" -> "true"
          [] n = "handleEntity" -> "null"
          [] OTHER -> "0"]

CompInit ==
    /\ store = (Guid :> [data |-> InitialData])
    /\ entityEnabled = TRUE
    /\ fired = <<>>
    /\ hooks = <<>>
    /\ lastHook = "none"

\* a store without a record of the entity
NoRecord == [guid \in {} |-> [data |-> InitialData]]

\* the component as its constructor leaves it: the system has stored no record
DetachedInit ==
    /\ store = NoRecord
    /\ entityEnabled = TRUE
    /\ fired = <<>>
    /\ hooks = <<>>
    /\ lastHook = "none"

\* the system stores the record of the component, or deletes it
AddRecord ==
    /\ DataIsNull
    /\ store' = (Guid :> [data |-> InitialData])
    /\ call' = [op |-> "addRecord"]
    /\ UNCHANGED <<entityEnabled, fired, hooks, lastHook, animVars, restVars>>

RemoveRecord ==
    /\ ~DataIsNull
    /\ store' = NoRecord
    /\ call' = [op |-> "removeRecord"]
    /\ UNCHANGED <<entityEnabled, fired, hooks, lastHook, animVars, restVars>>

\* a getter that stores a record when it finds none
ReadDataCreating ==
    /\ store' = IF DataIsNull THEN (Guid :> [data |-> InitialData]) ELSE store
    /\ call' = [op |-> "data", null |-> DataIsNull, raised |-> FALSE]
    /\ UNCHANGED <<entityEnabled, fired, hooks, lastHook, animVars, restVars>>

\* get data(): the record is looked up and its data, or null, is returned
ReadData ==
    /\ call' = [op |-> "data", null |-> DataIsNull, raised |-> FALSE]
    /\ UNCHANGED <<compVars, animVars, restVars>>

(***************************************************************************)
(* Animation component                                                     *)
(***************************************************************************)

\* the parameter types of controller/constants.js
ANIM_PARAMETER_INTEGER == "INTEGER"

ANIM_PARAMETER_FLOAT == "FLOAT"

ANIM_PARAMETER_BOOLEAN == "BOOLEAN"

ANIM_PARAMETER_TRIGGER == "TRIGGER"

\* the names of the control states, which need no animation asset
ANIM_CONTROL_STATES == {"START", "END", "ANY"}

\* the state graph objects: the resources of the two state graph assets
Graphs == {"g1", "g2"}

\* stateGraph.layers of each graph: the name of each layer, the names of its
\* states, the trigger parameters its transitions are conditioned on, and its
\* mask ("undefined" when the layer data has none)
GraphLayers(g) ==
    IF g = "g1"
    THEN << [name |-> "Base", states |-> <<"START", "Idle">>, triggers |-> {"trig"},
             mask |-> "undefined"] >>
    ELSE << [name |-> "Upper", states |-> <<"START", "Wave", "END">>, triggers |-> {},
             mask |-> "arm"],
            [name |-> "Base", states |-> <<"START", "Walk">>, triggers |-> {},
             mask |-> "undefined"] >>

\* stateGraph.parameters as each graph declares them: name -> {type, value}
GraphDeclared(g) ==
    IF g = "g1"
    THEN [n \in {"trig"} |-> [type |-> ANIM_PARAMETER_TRIGGER, value |-> "false"]]
    ELSE [n \in {"trig", "f"} |->
            IF n = "trig" THEN [type |-> ANIM_PARAMETER_BOOLEAN, value |-> "false"]
            ELSE [type |-> ANIM_PARAMETER_INTEGER, value |-> "1"]]

\* the parameter names callers pass: "f" is declared by one graph only
ParamNames == {"trig", "f"}

\* the layer name callers pass to addLayer: a layer of one graph only
LayerNames == {"Upper"}

\* the mask callers pass to addLayer
LayerMasks == {"leg"}

\* the state graph assets of the registry and the resource of each
GraphAssets == {"1", "2"}

AssetGraph(id) == IF id = "1" THEN "g1" ELSE "g2"

\* the animation assets of the registry (loaded)
AnimationAssets == {"7"}

\* an animation asset of the registry whose resource is not loaded at first
UnloadedAnimationAssets == {"4"}

\* the manifests callers assign to animationAssets
ManifestInputs == { [k \in {"Base:Idle"} |-> "7"] }

\* manifests that name the animation asset that is still to load
LateManifestInputs == { [k \in {key} |-> "4"] : key \in {"Base:Idle", "Upper:Wave"} }

\* the values of speed, and of dt in update(dt)
Speeds == {1, 2}

Dts == {3}

\* the most subscriptions the component makes to one event of one asset
MaxSubscriptions == 2

\* the parameter object of graph g named n, and the one loadStateGraph creates
GraphRef(g, n) == <<g, n>>

OwnRef(n) == <<"own", n>>

\* stateGraph.parameters of the graph object g: name -> parameter object
GraphParameters(g) == [n \in DOMAIN GraphDeclared(g) |-> GraphRef(g, n)]

EmptyMap == [n \in {} |-> "null"]

\* the key of a state in the animation-asset manifest
StateKey(layerName, stateName) == layerName \o ":" \o stateName

\* findAnimationLayer(name): the index of the layer found, 0 for null
\* (indices count from 1 here, from 0 in the source)
findAnimationLayer(a, name) ==
    IF name \in DOMAIN a.layerIndices /\ a.layerIndices[name] <= Len(a.layers)
    THEN a.layerIndices[name]
    ELSE 0

\* _addLayer({name, states, ...}): a new layer, with a new controller that is
\* handed the component's current parameter map
addLayerData(a, layer) ==
    LET layerIndex == Len(a.layers) + 1
    IN  [a EXCEPT
            !.layers = Append(@, [name |-> layer.name,
                                  states |-> layer.states,
                                  triggers |-> layer.triggers,
                                  parameters |-> a.parameters,
                                  mask |-> layer.mask,
                                  tracks |-> {}]),
            !.layerIndices = [n \in DOMAIN @ \cup {layer.name} |->
                                IF n = layer.name THEN layerIndex ELSE @[n]]]

RECURSIVE addLayersFrom(_, _, _)
addLayersFrom(a, graphLayers, i) ==
    IF i > Len(graphLayers) THEN a
    ELSE addLayersFrom(addLayerData(a, graphLayers[i]), graphLayers, i + 1)

\* layer.removeNodeAnimations / layer.assignAnimation on the layer found by name
removeNodeAnimations(a, nodeName, layerName) ==
    LET k == findAnimationLayer(a, layerName)
    IN  IF k = 0 THEN a
        ELSE [a EXCEPT !.layers[k].tracks = @ \ {nodeName}]

onAnimationAssetLoaded(a, layerName, stateName) ==
    LET k == findAnimationLayer(a, layerName)
    IN  [a EXCEPT !.layers[k].tracks = @ \cup {stateName}]

\* loadAnimationAssets(), from state j of layer i on
RECURSIVE loadAnimationAssetsFrom(_, _, _)
loadAnimationAssetsFrom(a, i, j) ==
    IF i > Len(a.layers) THEN a
    ELSE IF j > Len(a.layers[i].states) THEN loadAnimationAssetsFrom(a, i + 1, 1)
    ELSE LET layer == a.layers[i]
             stateName == layer.states[j]
             key == StateKey(layer.name, stateName)
         IN  IF stateName \in ANIM_CONTROL_STATES
             THEN loadAnimationAssetsFrom(a, i, j + 1)
             ELSE IF key \notin DOMAIN a.animationAssets \/ a.animationAssets[key] = "null"
             THEN loadAnimationAssetsFrom(
                      removeNodeAnimations(a, stateName, layer.name), i, j + 1)
             ELSE IF a.animationAssets[key] \in AnimationAssets \cup a.loadedAssets
             THEN loadAnimationAssetsFrom(
                      onAnimationAssetLoaded(a, layer.name, stateName), i, j + 1)
             ELSE IF a.animationAssets[key] \in UnloadedAnimationAssets
             THEN loadAnimationAssetsFrom(
                      [a EXCEPT !.onceLoad =
                          Append(@, <<a.animationAssets[key], layer.name, stateName>>)],
                      i, j + 1)
             ELSE loadAnimationAssetsFrom(a, i, j + 1)

loadAnimationAssets(a) == loadAnimationAssetsFrom(a, 1, 1)

\* the manifest keys of the non-control states of the current layers
LayerStateKeys(a) ==
    { StateKey(a.layers[i].name, a.layers[i].states[j]) :
        <<i, j>> \in { p \in (DOMAIN a.layers) \X (1..3) :
                        /\ p[2] <= Len(a.layers[p[1]].states)
                        /\ a.layers[p[1]].states[p[2]] \notin ANIM_CONTROL_STATES } }

\* setupAnimationAssets(): an entry {asset: null} for each key that has none
setupAnimationAssets(a) ==
    loadAnimationAssets(
        [a EXCEPT !.animationAssets =
            [k \in DOMAIN @ \cup LayerStateKeys(a) |->
                IF k \in DOMAIN @ THEN @[k] ELSE "null"]])

\* loadStateGraph(stateGraph): the component's fields and the heap after it
loadStateGraph(a, h, g) ==
    LET paramKeys == DOMAIN GraphParameters(g)
        kept == { r \in DOMAIN h : r[1] # "own" }
        h1 == [r \in kept \cup {OwnRef(n) : n \in paramKeys} |->
                 IF r[1] = "own"
                 THEN [type |-> h[GraphParameters(g)[r[2]]].type,
                       value |-> h[GraphParameters(g)[r[2]]].value]
                 ELSE h[r]]
        a1 == [a EXCEPT !.stateGraph = g,
                        !.parameters = [n \in paramKeys |-> OwnRef(n)],
                        !.layers = <<>>]
    IN  [anim |-> setupAnimationAssets(addLayersFrom(a1, GraphLayers(g), 1)),
         heap |-> h1]

\* a removeStateGraph() that leaves the manifest and the playing flag alone
removeStateGraphLayersOnly(a) ==
    [a EXCEPT !.stateGraph = "null",
              !.stateGraphAsset = "null",
              !.layers = <<>>,
              !.layerIndices = EmptyMap,
              !.parameters = EmptyMap]

\* removeStateGraph()
removeStateGraph(a) ==
    [a EXCEPT !.stateGraph = "null",
              !.stateGraphAsset = "null",
              !.animationAssets = EmptyMap,
              !.layers = <<>>,
              !.layerIndices = EmptyMap,
              !.parameters = EmptyMap,
              !.playing = FALSE]

\* the fields the constructor sets; with them, the callbacks the component has
\* passed to asset.once('load') in the order it subscribed them, and the
\* animation assets whose resource has been loaded since
AnimConstructed ==
    [stateGraphAsset |-> "null",
     animationAssets |-> EmptyMap,
     speed |-> 1,
     playing |-> FALSE,
     stateGraph |-> "null",
     layers |-> <<>>,
     layerIndices |-> EmptyMap,
     parameters |-> EmptyMap,
     consumedTriggers |-> <<>>,
     onceLoad |-> <<>>,
     loadedAssets |-> {}]

AnimInit ==
    /\ anim = AnimConstructed
    /\ heap = [r \in UNION { {GraphRef(g, n) : n \in DOMAIN GraphDeclared(g)} : g \in Graphs } |->
                 GraphDeclared(r[1])[r[2]]]
    /\ assets = [id \in GraphAssets |->
                   [loaded |-> (id = "1"), loadOnce |-> 0, change |-> 0]]
    /\ trace = <<>>
    /\ threw = FALSE

\* an operation of the component ends: the fields, the heap and the registry
\* it leaves, and whether it raised
Finish(a, h, reg, steps, raised, op) ==
    /\ Len(a.onceLoad) <= MaxSubscriptions
    /\ anim' = a
    /\ heap' = h
    /\ assets' = reg
    /\ trace' = steps
    /\ threw' = raised
    /\ call' = op
    /\ UNCHANGED <<compVars, restVars>>

\* loadStateGraph(stateGraph), called with one of the graph objects
LoadStateGraph(g) ==
    LET r == loadStateGraph(anim, heap, g)
    IN  Finish(r.anim, r.heap, assets, <<>>, FALSE, [op |-> "loadStateGraph", graph |-> g])

\* removeStateGraph()
RemoveStateGraph ==
    Finish(removeStateGraph(anim), heap, assets, <<>>, FALSE, [op |-> "removeStateGraph"])

\* typeof value === 'number', and value % 1 === 0
IsNumber(v) == v \in {"0", "1", "0.5"}

IsInteger(v) == v \in {"0", "1"}

\* !!value
ToBoolean(v) == IF Truthy(v) THEN "true" ELSE "false"

\* setParameterValue(name, type, value): the heap after it (unchanged when no
\* parameter of that name and type is found: a diagnostic is logged)
setParameterValue(a, h, name, type, value) ==
    IF name \in DOMAIN a.parameters /\ h[a.parameters[name]].type = type
    THEN [h EXCEPT ![a.parameters[name]].value = value]
    ELSE h

\* Set.add: the names keep their insertion order
SetAdd(s, x) == IF \E i \in DOMAIN s : s[i] = x THEN s ELSE Append(s, x)

RECURSIVE SetAddAll(_, _)
SetAddAll(s, xs) ==
    IF xs = {} THEN s
    ELSE LET x == CHOOSE y \in xs : TRUE
         IN  SetAddAll(SetAdd(s, x), xs \ {x})

\* setFloat(name, value)
SetFloat(name, value) ==
    Finish(anim, setParameterValue(anim, heap, name, ANIM_PARAMETER_FLOAT, value),
           assets, <<>>, FALSE, [op |-> "setFloat", name |-> name, value |-> value])

\* setInteger(name, value)
SetInteger(name, value) ==
    Finish(anim,
           IF IsNumber(value) /\ IsInteger(value)
           THEN setParameterValue(anim, heap, name, ANIM_PARAMETER_INTEGER, value)
           ELSE heap,
           assets, <<>>, FALSE, [op |-> "setInteger", name |-> name, value |-> value])

\* setBoolean(name, value)
SetBoolean(name, value) ==
    Finish(anim,
           setParameterValue(anim, heap, name, ANIM_PARAMETER_BOOLEAN, ToBoolean(value)),
           assets, <<>>, FALSE, [op |-> "setBoolean", name |-> name, value |-> value])

\* setTrigger(name, singleFrame)
SetTrigger(name, singleFrame) ==
    Finish(IF singleFrame
           THEN [anim EXCEPT !.consumedTriggers = SetAdd(@, name)]
           ELSE anim,
           setParameterValue(anim, heap, name, ANIM_PARAMETER_TRIGGER, "true"),
           assets, <<>>, FALSE,
           [op |-> "setTrigger", name |-> name, singleFrame |-> singleFrame])

\* resetTrigger(name)
ResetTrigger(name) ==
    Finish(anim, setParameterValue(anim, heap, name, ANIM_PARAMETER_TRIGGER, "false"),
           assets, <<>>, FALSE, [op |-> "resetTrigger", name |-> name])

\* the speed and playing setters
SetSpeed(v) ==
    /\ anim.speed # v
    /\ Finish([anim EXCEPT !.speed = v], heap, assets, <<>>, FALSE,
              [op |-> "speed", value |-> v])

SetPlaying(v) ==
    /\ anim.playing # v
    /\ Finish([anim EXCEPT !.playing = v], heap, assets, <<>>, FALSE,
              [op |-> "playing", value |-> v])

\* the animationAssets setter
SetAnimationAssets(m) ==
    Finish(loadAnimationAssets([anim EXCEPT !.animationAssets = m]), heap, assets,
           <<>>, FALSE, [op |-> "animationAssets", value |-> m])

\* addLayer(name, weight, mask, blendType): the layer found by name, or a new
\* one with a START state
AddLayer(name, mask) ==
    Finish(IF findAnimationLayer(anim, name) # 0 THEN anim
           ELSE addLayerData(anim, [name |-> name, states |-> <<"START">>,
                                    triggers |-> {}, mask |-> mask]),
           heap, assets, <<>>, FALSE, [op |-> "addLayer", name |-> name])

\* reset(): the parameter map becomes a shallow copy of stateGraph.parameters (the
\* parameter objects are those of the graph); it raises when no graph is loaded
Reset ==
    IF anim.stateGraph = "null"
    THEN Finish(anim, heap, assets, <<>>, TRUE, [op |-> "reset"])
    ELSE Finish([anim EXCEPT !.parameters = GraphParameters(anim.stateGraph)],
                heap, assets, <<>>, FALSE, [op |-> "reset"])

\* the trigger parameters a layer's controller consumes in one update: those its
\* transitions are conditioned on and that are true in its parameter map, when
\* the transition is taken
ConsumedBy(layer, h, taken) ==
    IF taken
    THEN { n \in layer.triggers :
             /\ n \in DOMAIN layer.parameters
             /\ h[layer.parameters[n]].type = ANIM_PARAMETER_TRIGGER
             /\ h[layer.parameters[n]].value = "true" }
    ELSE {}

\* the loop of update(dt) over the layers, from layer i on: each controller is
\* advanced by dt * speed and adds the triggers it consumed to the set
RECURSIVE updateLayersFrom(_, _, _, _, _, _)
updateLayersFrom(a, h, dt, taken, i, steps) ==
    IF i > Len(a.layers) THEN [anim |-> a, steps |-> steps]
    ELSE LET used == ConsumedBy(a.layers[i], h, taken[i])
         IN  updateLayersFrom(
               [a EXCEPT !.consumedTriggers = SetAddAll(@, used)],
               h, dt, taken, i + 1,
               Append(steps, <<"layer", i, dt * a.speed>>))

\* the forEach of update(dt) over the consumed triggers, from the k-th on:
\* parameters[trigger].value = false raises when there is no such parameter
RECURSIVE resetTriggersFrom(_, _, _, _)
resetTriggersFrom(a, h, k, steps) ==
    IF k > Len(a.consumedTriggers)
    THEN [anim |-> [a EXCEPT !.consumedTriggers = <<>>], heap |-> h,
          steps |-> Append(steps, <<"clear">>), threw |-> FALSE]
    ELSE LET trigger == a.consumedTriggers[k]
         IN  IF trigger \notin DOMAIN a.parameters
             THEN [anim |-> a, heap |-> h,
                   steps |-> Append(steps, <<"throw", trigger>>), threw |-> TRUE]
             ELSE resetTriggersFrom(a,
                      [h EXCEPT ![a.parameters[trigger]].value = "false"],
                      k + 1, Append(steps, <<"reset", trigger>>))

\* update(dt)
Update(dt, taken) ==
    LET u == updateLayersFrom(anim, heap, dt, taken, 1, <<>>)
        r == resetTriggersFrom(u.anim, heap, 1, u.steps)
    IN  Finish(r.anim, r.heap, assets, r.steps, r.threw, [op |-> "update", dt |-> dt])

\* off('change', handler, scope): every subscription of the handler is removed
OffChange(reg, id) == [reg EXCEPT ![id].change = 0]

\* the stateGraphAsset setter, called with null or an asset id
SetStateGraphAsset(value) ==
    LET op == [op |-> "stateGraphAsset", value |-> value]
        reg1 == IF anim.stateGraphAsset # "null"
                THEN OffChange(assets, anim.stateGraphAsset)
                ELSE assets
    IN  IF value = "null"
        THEN Finish(removeStateGraph(anim), heap, assets, <<>>, FALSE, op)
        ELSE IF value \notin DOMAIN assets \/ anim.stateGraphAsset = value
        THEN Finish(anim, heap, reg1, <<>>, FALSE, op)
        ELSE IF assets[value].loaded
        THEN LET r == loadStateGraph(anim, heap, AssetGraph(value))
             IN  /\ reg1[value].change < MaxSubscriptions
                 /\ Finish([r.anim EXCEPT !.stateGraphAsset = value], r.heap,
                           [reg1 EXCEPT ![value].change = @ + 1], <<>>, FALSE, op)
        ELSE /\ reg1[value].change < MaxSubscriptions
             /\ reg1[value].loadOnce < MaxSubscriptions
             /\ Finish([anim EXCEPT !.stateGraphAsset = value], heap,
                       [reg1 EXCEPT ![value].change = @ + 1,
                                    ![value].loadOnce = @ + 1], <<>>, FALSE, op)

\* the asset finishes loading: its resource is set and 'load' is fired, which
\* runs each once('load') callback the setter registered
AssetLoad(id) ==
    /\ ~assets[id].loaded
    /\ LET r == IF assets[id].loadOnce > 0
                THEN loadStateGraph(anim, heap, AssetGraph(id))
                ELSE [anim |-> anim, heap |-> heap]
       IN  Finish(r.anim, r.heap,
                  [assets EXCEPT ![id].loaded = TRUE, ![id].loadOnce = 0],
                  <<>>, FALSE, [op |-> "load", asset |-> id])

\* layers.forEach(...) that assigns no mask
RECURSIVE assignNoMasksFrom(_, _, _, _)
assignNoMasksFrom(a, prevMasks, i, steps) ==
    IF i > Len(a.layers) THEN [anim |-> a, steps |-> steps]
    ELSE assignNoMasksFrom(a, prevMasks, i + 1,
                           Append(steps, <<"mask", i, a.layers[i].mask>>))

\* layers.forEach((layer, i) => layer.mask = prevMasks[i]), from layer i on
RECURSIVE assignMasksFrom(_, _, _, _)
assignMasksFrom(a, prevMasks, i, steps) ==
    IF i > Len(a.layers) THEN [anim |-> a, steps |-> steps]
    ELSE LET m == IF i <= Len(prevMasks) THEN prevMasks[i] ELSE "undefined"
         IN  assignMasksFrom([a EXCEPT !.layers[i].mask = m], prevMasks, i + 1,
                             Append(steps, <<"mask", i, m>>))

\* rebind(): the targets are cleared and each layer is rebound, from layer i on
RECURSIVE rebindFrom(_, _, _)
rebindFrom(a, i, steps) ==
    IF i > Len(a.layers) THEN steps
    ELSE rebindFrom(a, i + 1, Append(steps, <<"rebind", i>>))

rebind(a, steps) == rebindFrom(a, 1, Append(steps, <<"targets", "cleared">>))

\* _onStateGraphAssetChangeEvent(asset), with asset._data the data of graph g
onStateGraphAssetChangeEvent(a, h, g, steps) ==
    LET prevAnimationAssets == a.animationAssets
        prevMasks == [i \in DOMAIN a.layers |-> a.layers[i].mask]
        r == loadStateGraph(removeStateGraph(a), h, g)
        a1 == loadAnimationAssets(
                  loadAnimationAssets(
                      [r.anim EXCEPT !.animationAssets = prevAnimationAssets]))
        m == assignMasksFrom(a1, prevMasks, 1, Append(steps, <<"change", g>>))
    IN  [anim |-> m.anim, heap |-> r.heap, steps |-> rebind(m.anim, m.steps)]

\* the asset fires 'change': the handler runs once for each subscription
RECURSIVE fireChange(_, _, _, _, _)
fireChange(a, h, g, n, steps) ==
    IF n = 0 THEN [anim |-> a, heap |-> h, steps |-> steps]
    ELSE LET r == onStateGraphAssetChangeEvent(a, h, g, steps)
         IN  fireChange(r.anim, r.heap, g, n - 1, r.steps)

\* the content of a state graph asset the component is subscribed to changes to
\* the data of graph g, and the asset fires 'change'
AssetChange(id, g) ==
    /\ assets[id].change > 0
    /\ LET r == fireChange(anim, heap, g, assets[id].change, <<>>)
       IN  Finish(r.anim, r.heap, assets, r.steps, FALSE,
                  [op |-> "change", asset |-> id, graph |-> g])

\* the asset fires 'load': the callbacks subscribed with once() run in the
\* order of subscription, each one leaving the list as it returns; the one
\* that finds no layer raises, and it and the later ones stay
RECURSIVE fireAnimationLoad(_, _, _)
fireAnimationLoad(a, id, i) ==
    IF i > Len(a.onceLoad) THEN [anim |-> a, threw |-> FALSE]
    ELSE IF a.onceLoad[i][1] # id THEN fireAnimationLoad(a, id, i + 1)
    ELSE IF findAnimationLayer(a, a.onceLoad[i][2]) = 0
    THEN [anim |-> a, threw |-> TRUE]
    ELSE fireAnimationLoad(
             [onAnimationAssetLoaded(a, a.onceLoad[i][2], a.onceLoad[i][3])
                 EXCEPT !.onceLoad = SubSeq(@, 1, i - 1) \o SubSeq(@, i + 1, Len(@))],
             id, i)

\* the load of an animation asset the component has asked for completes
AnimationAssetLoad(id) ==
    /\ id \notin anim.loadedAssets
    /\ \E i \in DOMAIN anim.onceLoad : anim.onceLoad[i][1] = id
    /\ LET r == fireAnimationLoad([anim EXCEPT !.loadedAssets = @ \cup {id}], id, 1)
       IN  Finish(r.anim, heap, assets, <<>>, r.threw,
                  [op |-> "animation:load", asset |-> id])

(***************************************************************************)
(* Model component                                                         *)
(***************************************************************************)

\* the model components of the scene, each on an entity of its own that has no
\* animation component
ModelComponents == {"c1", "c2"}

\* the layers of scene.layers: the ids getLayerById finds
SceneLayers == {"world", "ui"}

LAYERID_WORLD == "world"

\* the indices of the mesh instances of a model
MeshIndices == {0, 1}

\* the model assets, and the resource (a Model) of each once it is loaded
ModelAssets == {"1", "2", "3"}

ResourceOf(id) == "r" \o id

\* the Model objects `new Model()` and clone() create, those callers create, and
\* all the Model objects
NewModels == <<"n1", "n2", "n3">>

UserModels == {"u1"}

ModelObjects ==
    {NewModels[i] : i \in DOMAIN NewModels} \cup UserModels
        \cup {ResourceOf(id) : id \in ModelAssets}

\* the material assets of the registry, the material each resolves to, and the
\* material asset found at a url
MaterialAssets == {"5", "6"}

MaterialOf(id) == "m" \o id

DefaultMaterial == "default"

getByUrl(url) == IF url = "files/six.json" THEN "6" ELSE "undefined"

\* asset.getAbsoluteUrl(path) of a model asset: the path, relative to the
\* directory of the asset's file
getAbsoluteUrl(id, path) == "files/" \o path

\* assets.get(id) of a material asset: "undefined" when the registry has none
getMaterialAsset(id) == IF id \in MaterialAssets THEN id ELSE "undefined"

\* data.mapping of each model asset: the entries by mesh instance index, each
\* naming a material asset by id or by relative path; asset "3" has none
AssetMapping(id) ==
    CASE id = "1" ->
           [defined |-> TRUE,
            entries |-> [i \in {0, 1} |->
                           IF i = 0 THEN [material |-> "5", path |-> "undefined"]
                           ELSE [material |-> "undefined", path |-> "six.json"]]]
      [] id = "2" ->
           [defined |-> TRUE,
            entries |-> [i \in {0} |-> [material |-> "6", path |-> "undefined"]]]
      [] OTHER -> [defined |-> FALSE, entries |-> EmptyMap]

\* a Model as `new Model()` leaves it, with its mesh instances
NewModel ==
    [immutable |-> FALSE,
     destroyed |-> FALSE,
     layers |-> {},
     casters |-> {},
     castShadow |-> FALSE,
     receiveShadow |-> TRUE,
     material |-> [i \in MeshIndices |-> DefaultMaterial]]

\* the fields the constructor of ModelComponent sets
ModelConstructed ==
    [type |-> "asset",
     asset |-> "null",
     model |-> "null",
     clonedModel |-> FALSE,
     mapping |-> EmptyMap,
     castShadows |-> TRUE,
     receiveShadows |-> TRUE,
     layers |-> <<LAYERID_WORLD>>,
     batchGroupId |-> -1,
     materialAsset |-> "null",
     material |-> DefaultMaterial,
     materialEvents |-> {},
     enabled |-> TRUE,
     entityEnabled |-> TRUE]

\* one more step of the operation under way
Step(w, s) == [w EXCEPT !.steps = Append(@, s)]

\* the layers of a layer list that getLayerById finds, in order
ExistingLayers(ls) == SelectSeq(ls, LAMBDA l : l \in SceneLayers)

\* addModelToLayers(); a layer that is given mesh instances also lists those
\* that cast shadows among its shadow casters
addModelToLayers(w, c) ==
    LET m == w.comps[c].model
        ex == ExistingLayers(w.comps[c].layers)
    IN  IF m = "null"
        THEN [w EXCEPT !.steps = @ \o [i \in DOMAIN ex |-> <<"addMeshInstances", ex[i], m>>]]
        ELSE [w EXCEPT
                !.models[m].layers = @ \cup {ex[i] : i \in DOMAIN ex},
                !.models[m].casters = IF w.models[m].castShadow
                                      THEN @ \cup {ex[i] : i \in DOMAIN ex}
                                      ELSE @,
                !.steps = @ \o [i \in DOMAIN ex |-> <<"addMeshInstances", ex[i], m>>]]

\* a removeModelFromLayers() that removes from no layer
removeModelFromNoLayer(w, c) == w

\* removeModelFromLayers()
removeModelFromLayers(w, c) ==
    LET m == w.comps[c].model
        ex == ExistingLayers(w.comps[c].layers)
    IN  [w EXCEPT !.models[m].layers = @ \ {ex[i] : i \in DOMAIN ex},
                  !.models[m].casters = @ \ {ex[i] : i \in DOMAIN ex},
                  !.steps = @ \o [i \in DOMAIN ex |-> <<"removeMeshInstances", ex[i], m>>]]

\* _unsetMaterialEvents()
unsetMaterialEvents(w, c) ==
    [w EXCEPT !.materialListeners = @ \ w.comps[c].materialEvents,
              !.comps[c].materialEvents = {}]

\* _setMaterialEvent(index, event, id, handler): the handler is a closure over
\* the mesh instance of index `index` of model m
setMaterialEvent(w, c, index, event, id, m) ==
    LET h == [comp |-> c, index |-> index, event |-> event, id |-> id, model |-> m]
    IN  [w EXCEPT !.materialListeners = @ \cup {h},
                  !.comps[c].materialEvents =
                      {e \in @ : ~(e.index = index /\ e.event = event /\ e.id = id)}
                          \cup {h}]

\* _loadAndSetMeshInstanceMaterial(materialAsset, meshInstance, index)
loadAndSetMeshInstanceMaterial(w, c, materialAsset, m, index) ==
    IF ~Truthy(materialAsset) THEN w
    ELSE IF w.materialLoaded[materialAsset]
    THEN setMaterialEvent(
             [w EXCEPT !.models[m].material[index] = MaterialOf(materialAsset)],
             c, index, "remove", materialAsset, m)
    ELSE LET w1 == setMaterialEvent(w, c, index, "load", materialAsset, m)
         IN  IF w.comps[c].enabled /\ w.comps[c].entityEnabled
             THEN Step(w1, <<"assets.load", materialAsset>>)
             ELSE w1

\* _getMaterialAssetUrl(path)
getMaterialAssetUrl(w, c, path) ==
    LET id == w.comps[c].asset
    IN  IF id = "null" THEN "null"
        ELSE IF w.assets[id].present THEN getAbsoluteUrl(id, path)
        ELSE "null"

\* the loop of the mapping setter over the mesh instances, from index i on;
\* `asset` is the variable the loop shares between its iterations
RECURSIVE mappingFrom(_, _, _, _, _, _)
mappingFrom(w, c, value, assetMapping, i, asset) ==
    LET m == w.comps[c].model
    IN  IF i \notin MeshIndices THEN w
        ELSE IF i \in DOMAIN value
        THEN IF Truthy(value[i])
             THEN LET a == getMaterialAsset(value[i])
                  IN  mappingFrom(loadAndSetMeshInstanceMaterial(w, c, a, m, i),
                                  c, value, assetMapping, i + 1, a)
             ELSE mappingFrom([w EXCEPT !.models[m].material[i] = DefaultMaterial],
                              c, value, assetMapping, i + 1, asset)
        ELSE IF assetMapping.defined
        THEN IF /\ i \in DOMAIN assetMapping.entries
                /\ (Truthy(assetMapping.entries[i].material)
                      \/ Truthy(assetMapping.entries[i].path))
             THEN LET e == assetMapping.entries[i]
                      a == IF e.material # "undefined" THEN getMaterialAsset(e.material)
                           ELSE IF /\ e.path # "undefined"
                                   /\ Truthy(getMaterialAssetUrl(w, c, e.path))
                           THEN getByUrl(getMaterialAssetUrl(w, c, e.path))
                           ELSE asset
                  IN  mappingFrom(loadAndSetMeshInstanceMaterial(w, c, a, m, i),
                                  c, value, assetMapping, i + 1, a)
             ELSE mappingFrom([w EXCEPT !.models[m].material[i] = DefaultMaterial],
                              c, value, assetMapping, i + 1, asset)
        ELSE mappingFrom(w, c, value, assetMapping, i + 1, asset)

\* the mapping setter
setMapping(w, c, value) ==
    IF w.comps[c].type # "asset" THEN w
    ELSE LET w1 == [unsetMaterialEvents(w, c) EXCEPT !.comps[c].mapping = value]
             id == w.comps[c].asset
             assetMapping == IF id # "null" /\ w.assets[id].present
                             THEN AssetMapping(id)
                             ELSE AssetMapping("null")
         IN  IF w.comps[c].model = "null" THEN w1
             ELSE mappingFrom(w1, c, value, assetMapping, 0, "null")

\* a model setter that installs a model another component has installed
setModelShared(w, c, value) ==
    IF w.comps[c].model = value THEN w
    ELSE [w EXCEPT !.comps[c].model = value]

\* the model setter
setModel(w, c, value) ==
    LET cur == w.comps[c].model
    IN  IF cur = value THEN w
        ELSE IF value # "null" /\ w.models[value].immutable
        THEN Step(w, <<"Debug.error", c, value>>)
        ELSE LET w1 == IF cur = "null" THEN w
                       ELSE LET r == [removeModelFromLayers(w, c) EXCEPT
                                         !.models[cur].immutable = FALSE]
                            IN  IF w.comps[c].clonedModel
                                THEN Step([r EXCEPT !.models[cur].destroyed = TRUE,
                                                    !.comps[c].clonedModel = FALSE],
                                          <<"destroy", cur>>)
                                ELSE r
                 w2 == [w1 EXCEPT !.comps[c].model = value]
             IN  IF value = "null" THEN w2
                 ELSE LET w3 == [w2 EXCEPT
                                    !.models[value].immutable = TRUE,
                                    !.models[value].castShadow = w.comps[c].castShadows,
                                    !.models[value].receiveShadow = w.comps[c].receiveShadows]
                          w4 == IF w.comps[c].enabled /\ w.comps[c].entityEnabled
                                THEN addModelToLayers(w3, c)
                                ELSE w3
                      IN  IF w.comps[c].type = "asset"
                          THEN setMapping(w4, c, w4.comps[c].mapping)
                          ELSE unsetMaterialEvents(w4, c)

\* the Model objects no component holds and no material listener refers to
FreeModels(w) ==
    { i \in DOMAIN NewModels :
        /\ \A c \in ModelComponents : w.comps[c].model # NewModels[i]
        /\ \A h \in w.materialListeners : h.model # NewModels[i] }

\* the object a `new Model()` or a clone() creates
FreshModel(w) == NewModels[CHOOSE i \in FreeModels(w) : \A j \in FreeModels(w) : i <= j]

\* an _onModelAssetLoad that installs asset.resource itself
onModelAssetLoadShared(w, c, id) ==
    [setModel(w, c, ResourceOf(id)) EXCEPT !.comps[c].clonedModel = TRUE]

\* _onModelAssetLoad(asset): asset.resource.clone() is installed
onModelAssetLoad(w, c, id) ==
    LET k == FreshModel(w)
        w1 == [w EXCEPT !.models[k] =
                  [NewModel EXCEPT !.material = w.models[ResourceOf(id)].material]]
    IN  [setModel(Step(w1, <<"clone", id, k>>), c, k) EXCEPT !.comps[c].clonedModel = TRUE]

\* _unbindModelAsset(asset): the load, unload, change and remove handlers are
\* taken off the asset
unbindModelAsset(w, c, id) ==
    Step([w EXCEPT !.assets[id].bound = @ \ {c}], <<"off", c, id>>)

\* a _bindModelAsset that requests the load whether or not the component is
\* enabled
bindModelAssetAlwaysLoad(w, c, id) ==
    LET w1 == Step([unbindModelAsset(w, c, id) EXCEPT !.assets[id].bound = @ \cup {c}],
                   <<"on", c, id>>)
    IN  IF w.assets[id].loaded THEN onModelAssetLoad(w1, c, id)
        ELSE Step(w1, <<"assets.load", id>>)

\* _bindModelAsset(asset)
bindModelAsset(w, c, id) ==
    LET w1 == Step([unbindModelAsset(w, c, id) EXCEPT !.assets[id].bound = @ \cup {c}],
                   <<"on", c, id>>)
    IN  IF w.assets[id].loaded THEN onModelAssetLoad(w1, c, id)
        ELSE IF w.comps[c].enabled /\ w.comps[c].entityEnabled
        THEN Step(w1, <<"assets.load", id>>)
        ELSE w1

\* the asset setter, called with null or an asset id
setAsset(w, c, value) ==
    LET prev == w.comps[c].asset
        w1 == IF prev = "null" THEN w
              ELSE LET o == Step([w EXCEPT !.assets[prev].added = @ \ {c}],
                                 <<"off:add", c, prev>>)
                   IN  IF w.assets[prev].present THEN unbindModelAsset(o, c, prev) ELSE o
        w2 == [w1 EXCEPT !.comps[c].asset = value]
    IN  IF prev = value THEN w
        ELSE IF value = "null" THEN setModel(w2, c, "null")
        ELSE IF ~w.assets[value].present
        THEN Step([setModel(w2, c, "null") EXCEPT !.assets[value].added = @ \cup {c}],
                  <<"on:add", c, value>>)
        ELSE bindModelAsset(w2, c, value)

\* the type setter; when the type becomes 'asset' and an asset id is held,
\* _bindModelAsset is handed the id, not the asset, and asset.off(...) raises
typeRaises(w, c, value) ==
    /\ w.comps[c].type # value
    /\ value = "asset"
    /\ w.comps[c].asset # "null"

setType(w, c, value) ==
    LET w1 == [w EXCEPT !.comps[c].type = value]
        k == FreshModel(w)
    IN  IF w.comps[c].type = value THEN w
        ELSE IF value = "asset"
        THEN IF w.comps[c].asset # "null" THEN w1 ELSE setModel(w1, c, "null")
        ELSE [setModel([w1 EXCEPT !.models[k] =
                            [NewModel EXCEPT !.material =
                                [i \in MeshIndices |-> w.comps[c].material]]], c, k)
                 EXCEPT !.comps[c].asset = "null"]

\* a layers setter that adds to the new layers and removes from no old one
setLayersNoRemoval(w, c, value) ==
    LET w2 == [w EXCEPT !.comps[c].layers = value]
    IN  IF ~w.comps[c].enabled \/ ~w.comps[c].entityEnabled \/ w.comps[c].model = "null"
        THEN w2
        ELSE addModelToLayers(w2, c)

\* the layers setter, called with a new array
setLayers(w, c, value) ==
    LET w1 == IF w.comps[c].model # "null" THEN removeModelFromLayers(w, c) ELSE w
        w2 == [w1 EXCEPT !.comps[c].layers = value]
    IN  IF ~w.comps[c].enabled \/ ~w.comps[c].entityEnabled \/ w.comps[c].model = "null"
        THEN w2
        ELSE addModelToLayers(w2, c)

\* the castShadows setter
setCastShadows(w, c, value) ==
    LET m == w.comps[c].model
        old == w.comps[c].castShadows
        ex == ExistingLayers(w.comps[c].layers)
        listed == {ex[i] : i \in DOMAIN ex}
        w1 == IF old /\ ~value
              THEN [w EXCEPT
                      !.models[m].casters = @ \ listed,
                      !.steps = @ \o [i \in DOMAIN ex |-> <<"removeShadowCasters", ex[i], m>>]]
              ELSE w
        w2 == [w1 EXCEPT !.models[m].castShadow = value]
        w3 == IF ~old /\ value
              THEN [w2 EXCEPT
                      !.models[m].casters = @ \cup listed,
                      !.steps = @ \o [i \in DOMAIN ex |-> <<"addShadowCasters", ex[i], m>>]]
              ELSE w2
    IN  IF old = value THEN w
        ELSE [(IF m # "null" THEN w3 ELSE w) EXCEPT !.comps[c].castShadows = value]

\* batcher.insert / batcher.remove(BatchGroup.MODEL, groupId, entity): the
\* batcher keeps the groups the entity of each component is in
batcherInsert(w, groupId, c) ==
    Step([w EXCEPT !.batch[c] = @ \cup {groupId}], <<"batcher.insert", groupId, c>>)

batcherRemove(w, groupId, c) ==
    Step([w EXCEPT !.batch[c] = @ \ {groupId}], <<"batcher.remove", groupId, c>>)

\* the batchGroupId setter
setBatchGroupId(w, c, value) ==
    LET old == w.comps[c].batchGroupId
        w1 == IF w.comps[c].entityEnabled /\ old >= 0
              THEN batcherRemove(w, old, c)
              ELSE w
        w2 == IF w.comps[c].entityEnabled /\ value >= 0
              THEN batcherInsert(w1, value, c)
              ELSE w1
        w3 == IF value < 0 /\ old >= 0 /\ w.comps[c].enabled /\ w.comps[c].entityEnabled
              THEN addModelToLayers(w2, c)
              ELSE w2
    IN  IF old = value THEN w
        ELSE [w3 EXCEPT !.comps[c].batchGroupId = value]

\* _setMaterial(material): the mesh instances of a model that is not of type
\* 'asset' are given the material
setMaterial(w, c, material) ==
    LET m == w.comps[c].model
        w1 == [w EXCEPT !.comps[c].material = material]
    IN  IF w.comps[c].material = material THEN w
        ELSE IF m # "null" /\ w.comps[c].type # "asset"
        THEN [w1 EXCEPT !.models[m].material = [i \in MeshIndices |-> material]]
        ELSE w1

\* _unbindMaterialAsset(asset): off() takes every subscription of the handlers
unbindMaterialAsset(w, c, id) ==
    Step([w EXCEPT !.materialBound[id][c] = 0], <<"material.off", c, id>>)

\* _bindMaterialAsset(asset): the four handlers are subscribed once more
bindMaterialAsset(w, c, id) ==
    LET w1 == Step([w EXCEPT !.materialBound[id][c] = @ + 1], <<"material.on", c, id>>)
    IN  IF w.materialLoaded[id] THEN setMaterial(w1, c, MaterialOf(id))
        ELSE IF w.comps[c].enabled /\ w.comps[c].entityEnabled
        THEN Step(w1, <<"assets.load", id>>)
        ELSE w1

\* the materialAsset setter, called with null or an asset id
setMaterialAsset(w, c, value) ==
    LET prev == w.comps[c].materialAsset
        w1 == IF Truthy(prev)
              THEN LET w0 == Step(w, <<"material.off:add", c, prev>>)
                   IN  IF getMaterialAsset(prev) # "undefined"
                       THEN unbindMaterialAsset(w0, c, prev)
                       ELSE w0
              ELSE w
        w2 == [w1 EXCEPT !.comps[c].materialAsset = value]
    IN  IF prev = value THEN w
        ELSE IF ~Truthy(value) THEN setMaterial(w2, c, DefaultMaterial)
        ELSE IF getMaterialAsset(value) = "undefined"
        THEN Step(setMaterial(w2, c, DefaultMaterial), <<"material.on:add", c, value>>)
        ELSE bindMaterialAsset(w2, c, value)

\* the part of onEnable() about the material asset
enableMaterialAsset(w, c) ==
    LET id == w.comps[c].materialAsset
        resource == IF w.materialLoaded[id] THEN MaterialOf(id) ELSE "null"
    IN  IF Truthy(id) /\ getMaterialAsset(id) # "undefined"
        THEN IF resource # w.comps[c].material THEN bindMaterialAsset(w, c, id) ELSE w
        ELSE w

\* the material asset fires 'load': _onMaterialAssetLoad runs once for each
\* subscription of each component, from the n-th subscription down
RECURSIVE fireMaterialLoad(_, _, _, _)
fireMaterialLoad(w, c, id, n) ==
    IF n = 0 THEN w
    ELSE fireMaterialLoad(
             Step(setMaterial(w, c, MaterialOf(id)), <<"onMaterialAssetLoad", c, id>>),
             c, id, n - 1)

\* the material assets onEnable requests: those of the mapping that are in the
\* registry and not loaded, in the order of the indices
mappedToLoad(w, c) ==
    LET mapping == w.comps[c].mapping
        idx == SelectSeq(<<0, 1>>, LAMBDA i :
                   /\ i \in DOMAIN mapping
                   /\ Truthy(mapping[i])
                   /\ getMaterialAsset(mapping[i]) # "undefined"
                   /\ ~w.materialLoaded[mapping[i]])
    IN  [k \in DOMAIN idx |-> <<"assets.load", mapping[idx[k]]>>]

\* onEnable()
onEnable(w, c) ==
    LET id == w.comps[c].asset
        w1 == IF w.comps[c].model # "null" THEN addModelToLayers(w, c)
              ELSE IF w.comps[c].type = "asset" /\ id # "null" /\ w.assets[id].present
              THEN bindModelAsset(w, c, id)
              ELSE w
        wm == enableMaterialAsset(w1, c)
        w2 == IF w.comps[c].type = "asset"
              THEN [wm EXCEPT !.steps = @ \o mappedToLoad(wm, c)]
              ELSE wm
    IN  IF w.comps[c].batchGroupId >= 0
        THEN batcherInsert(w2, w.comps[c].batchGroupId, c)
        ELSE w2

\* onDisable()
onDisable(w, c) ==
    LET w1 == IF w.comps[c].batchGroupId >= 0
              THEN batcherRemove(w, w.comps[c].batchGroupId, c)
              ELSE w
    IN  IF w.comps[c].model # "null" THEN removeModelFromLayers(w1, c) ELSE w1

\* a write of `enabled` through its accessor, and the onSetEnabled it leads to
setEnabled(w, c, value) ==
    LET w1 == [w EXCEPT !.comps[c].enabled = value]
    IN  IF w.comps[c].enabled # value /\ w.comps[c].entityEnabled
        THEN IF value THEN onEnable(w1, c) ELSE onDisable(w1, c)
        ELSE w1

\* one handler of the component for an event of the model asset `id`, when it
\* is subscribed
deliver(w, c, id, event) ==
    IF c \notin w.assets[id].bound THEN w
    ELSE CASE event = "load" -> onModelAssetLoad(w, c, id)
           [] event \in {"unload", "remove"} -> setModel(w, c, "null")
           [] OTHER -> setMapping(w, c, w.comps[c].mapping)

\* asset.fire(event): the handlers of the components, in turn
fire(w, id, event) == deliver(deliver(w, "c1", id, event), "c2", id, event)

\* _onModelAssetAdded(asset), when the component listens to 'add:<id>'
onModelAssetAdded(w, c, id) ==
    IF c \notin w.assets[id].added THEN w
    ELSE LET w1 == Step([w EXCEPT !.assets[id].added = @ \ {c}], <<"off:add", c, id>>)
         IN  IF w.comps[c].asset = id THEN bindModelAsset(w1, c, id) ELSE w1

\* the 'load:<id>' handlers of _loadAndSetMeshInstanceMaterial, for the
\* listeners hs
RECURSIVE onMaterialLoaded(_, _)
onMaterialLoaded(w, hs) ==
    IF hs = {} THEN w
    ELSE LET h == CHOOSE x \in hs : TRUE
             w1 == [w EXCEPT !.models[h.model].material[h.index] = MaterialOf(h.id)]
         IN  onMaterialLoaded(
                 setMaterialEvent(w1, h.comp, h.index, "remove", h.id, h.model),
                 hs \ {h})

ModelInit ==
    scene = [comps |-> [c \in ModelComponents |-> ModelConstructed],
             models |-> [m \in ModelObjects |-> NewModel],
             assets |-> [id \in ModelAssets |->
                           [present |-> TRUE, loaded |-> (id # "1"),
                            bound |-> {}, added |-> {}]],
             materialLoaded |-> [id \in MaterialAssets |-> (id = "5")],
             materialListeners |-> {},
             batch |-> [c \in ModelComponents |-> {}],
             materialBound |-> [id \in MaterialAssets |-> [c \in ModelComponents |-> 0]],
             steps |-> <<>>]

\* the scene as an operation finds it
Begin == [scene EXCEPT !.steps = <<>>]

\* an operation on the scene ends; the Model objects nothing refers to any more
\* are given back
ModelFinish(w, raised, op) ==
    /\ \A id \in MaterialAssets : \A c \in ModelComponents :
           w.materialBound[id][c] <= MaxSubscriptions
    /\ scene' = [w EXCEPT !.models =
                    [m \in ModelObjects |->
                        IF \E i \in FreeModels(w) : NewModels[i] = m
                        THEN NewModel
                        ELSE w.models[m]]]
    /\ threw' = raised
    /\ call' = op
    /\ UNCHANGED <<compVars, anim, heap, assets, trace, layout>>

SetAsset(c, value) ==
    ModelFinish(setAsset(Begin, c, value), FALSE,
                [op |-> "asset", comp |-> c, value |-> value])

SetModel(c, value) ==
    ModelFinish(setModel(Begin, c, value), FALSE,
                [op |-> "model", comp |-> c, value |-> value])

SetType(c, value) ==
    ModelFinish(setType(Begin, c, value), typeRaises(scene, c, value),
                [op |-> "type", comp |-> c, value |-> value])

SetLayers(c, value) ==
    ModelFinish(setLayers(Begin, c, value), FALSE,
                [op |-> "layers", comp |-> c, value |-> value, own |-> FALSE])

\* the layers setter, called with the array the component holds: `length = 0`
\* empties the array before it is copied
SetLayersToOwn(c) ==
    ModelFinish(setLayers(Begin, c, <<>>), FALSE,
                [op |-> "layers", comp |-> c, value |-> scene.comps[c].layers,
                 own |-> TRUE])

SetMapping(c, value) ==
    ModelFinish(setMapping(Begin, c, value), FALSE,
                [op |-> "mapping", comp |-> c, value |-> value])

SetEnabled(c, value) ==
    ModelFinish(setEnabled(Begin, c, value), FALSE,
                [op |-> "enabled", comp |-> c, value |-> value])

SetMaterialAsset(c, value) ==
    ModelFinish(setMaterialAsset(Begin, c, value), FALSE,
                [op |-> "materialAsset", comp |-> c, value |-> value])

SetCastShadows(c, value) ==
    ModelFinish(setCastShadows(Begin, c, value), FALSE,
                [op |-> "castShadows", comp |-> c, value |-> value])

SetBatchGroupId(c, value) ==
    ModelFinish(setBatchGroupId(Begin, c, value), FALSE,
                [op |-> "batchGroupId", comp |-> c, value |-> value])

\* the model asset finishes loading: its resource is set and it fires 'load'
ModelAssetLoad(id) ==
    /\ ~scene.assets[id].loaded
    /\ ModelFinish(fire([Begin EXCEPT !.assets[id].loaded = TRUE], id, "load"), FALSE,
                   [op |-> "asset:load", asset |-> id])

\* the model asset is unloaded: it fires 'unload' and drops its resource
ModelAssetUnload(id) ==
    /\ scene.assets[id].loaded
    /\ ModelFinish([fire(Begin, id, "unload") EXCEPT !.assets[id].loaded = FALSE], FALSE,
                   [op |-> "asset:unload", asset |-> id])

\* the model asset is removed from the registry, and fires 'remove'
ModelAssetRemove(id) ==
    /\ scene.assets[id].present
    /\ ModelFinish(fire([Begin EXCEPT !.assets[id].present = FALSE], id, "remove"), FALSE,
                   [op |-> "asset:remove", asset |-> id])

\* the model asset is added to the registry, which fires 'add:<id>'
ModelAssetAdd(id) ==
    /\ ~scene.assets[id].present
    /\ LET w == [Begin EXCEPT !.assets[id].present = TRUE]
       IN  ModelFinish(onModelAssetAdded(onModelAssetAdded(w, "c1", id), "c2", id), FALSE,
                       [op |-> "asset:add", asset |-> id])

\* the data of the model asset changes, and it fires 'change' with attr 'data'
ModelAssetChange(id) ==
    /\ scene.assets[id].bound # {}
    /\ ModelFinish(fire(Begin, id, "change"), FALSE,
                   [op |-> "asset:change", asset |-> id])

\* the material asset finishes loading, and the registry fires 'load:<id>'
MaterialAssetLoad(id) ==
    /\ ~scene.materialLoaded[id]
    /\ LET w == onMaterialLoaded([Begin EXCEPT !.materialLoaded[id] = TRUE],
                                 {h \in scene.materialListeners :
                                     h.event = "load" /\ h.id = id})
           w1 == fireMaterialLoad(w, "c1", id, w.materialBound[id]["c1"])
       IN  ModelFinish(fireMaterialLoad(w1, "c2", id, w1.materialBound[id]["c2"]),
                       FALSE, [op |-> "material:load", asset |-> id])

\* the mappings and the layer lists callers assign
MappingInputs ==
    { EmptyMap,
      [i \in {0} |-> "6"],
      [i \in {0, 1} |-> IF i = 0 THEN "null" ELSE "5"],
      [i \in {1} |-> "8"] }

LayerInputs == { <<"world">>, <<"ui", "gone">>, <<"ui", "world">> }

\* the batch group ids callers assign: no group, and one group
BatchGroupIds == {-1, 0}

(***************************************************************************)
(* Layout calculator                                                       *)
(*                                                                         *)
(* JavaScript numbers are written as pairs <<n, d>>: the fraction n / d in *)
(* lowest terms with d > 0, and d = 0 for the three special values         *)
(* Infinity <<1, 0>>, -Infinity <<-1, 0>> and NaN <<0, 0>>.  The arithmetic *)
(* is exact, so the rounding of the floating point operations is not       *)
(* modelled; null and a missing property are the pairs Null and Undefined,  *)
(* which are no numbers.                                                   *)
(***************************************************************************)

LayoutInit == layout = [op |-> "none"]

R(n) == <<n, 1>>
Infinity == <<1, 0>>
NegInfinity == <<-1, 0>>
NaN == <<0, 0>>

AbsInt(n) == IF n < 0 THEN 0 - n ELSE n
SignInt(n) == IF n < 0 THEN -1 ELSE IF n = 0 THEN 0 ELSE 1

RECURSIVE Gcd(_, _)
Gcd(m, n) == IF n = 0 THEN m ELSE Gcd(n, m % n)

Frac(n, d) ==
    IF d = 0 THEN <<SignInt(n), 0>>
    ELSE LET g == Gcd(AbsInt(n), AbsInt(d))
         IN  <<SignInt(d) * SignInt(n) * (AbsInt(n) \div g), AbsInt(d) \div g>>

IsNaN(x) == x = NaN
IsFinite(x) == x[2] # 0

Neg(x) == <<0 - x[1], x[2]>>

Add(x, y) ==
    IF IsNaN(x) \/ IsNaN(y) THEN NaN
    ELSE IF ~IsFinite(x) /\ ~IsFinite(y) THEN (IF x = y THEN x ELSE NaN)
    ELSE IF ~IsFinite(x) THEN x
    ELSE IF ~IsFinite(y) THEN y
    ELSE Frac(x[1] * y[2] + y[1] * x[2], x[2] * y[2])

Sub(x, y) == Add(x, Neg(y))

Mul(x, y) ==
    IF IsNaN(x) \/ IsNaN(y) THEN NaN
    ELSE IF ~IsFinite(x) \/ ~IsFinite(y)
         THEN <<SignInt(x[1]) * SignInt(y[1]), 0>>
    ELSE Frac(x[1] * y[1], x[2] * y[2])

Div(x, y) ==
    IF IsNaN(x) \/ IsNaN(y) THEN NaN
    ELSE IF ~IsFinite(y) THEN (IF IsFinite(x) THEN R(0) ELSE NaN)
    ELSE IF ~IsFinite(x) THEN <<x[1] * (IF y[1] < 0 THEN -1 ELSE 1), 0>>
    ELSE Frac(x[1] * y[2], x[2] * y[1])

Lt(x, y) ==
    IF IsNaN(x) \/ IsNaN(y) THEN FALSE
    ELSE IF x = y THEN FALSE
    ELSE IF x = NegInfinity \/ y = Infinity THEN TRUE
    ELSE IF x = Infinity \/ y = NegInfinity THEN FALSE
    ELSE x[1] * y[2] < y[1] * x[2]

Gt(x, y) == Lt(y, x)
Ge(x, y) == ~IsNaN(x) /\ ~IsNaN(y) /\ ~Lt(x, y)
Le(x, y) == Ge(y, x)

MathMax(x, y) == IF IsNaN(x) \/ IsNaN(y) THEN NaN ELSE IF Lt(x, y) THEN y ELSE x
MathMin(x, y) == IF IsNaN(x) \/ IsNaN(y) THEN NaN ELSE IF Lt(y, x) THEN y ELSE x
MathAbs(x) == <<AbsInt(x[1]), x[2]>>

Undefined == <<0, -1>>
Null == <<0, -2>>

\* ToNumber of a property value: null is 0, a missing property is NaN.
Num(v) == IF v = Null THEN R(0) ELSE IF v = Undefined THEN NaN ELSE v

ORIENTATION_HORIZONTAL == "horizontal"
ORIENTATION_VERTICAL == "vertical"
FITTING_NONE == "none"
FITTING_STRETCH == "stretch"
FITTING_SHRINK == "shrink"
FITTING_BOTH == "both"

AXIS_MAPPINGS(orientation) ==
    IF orientation = ORIENTATION_HORIZONTAL
    THEN [axis |-> "x", size |-> "width", calculatedSize |-> "calculatedWidth",
          minSize |-> "minWidth", maxSize |-> "maxWidth",
          fitting |-> "widthFitting", fittingProportion |-> "fitWidthProportion"]
    ELSE [axis |-> "y", size |-> "height", calculatedSize |-> "calculatedHeight",
          minSize |-> "minHeight", maxSize |-> "maxHeight",
          fitting |-> "heightFitting", fittingProportion |-> "fitHeightProportion"]

OPPOSITE_ORIENTATION(orientation) ==
    IF orientation = ORIENTATION_HORIZONTAL THEN ORIENTATION_VERTICAL
    ELSE ORIENTATION_HORIZONTAL

PROPERTY_DEFAULTS ==
    [minWidth |-> R(0), minHeight |-> R(0),
     maxWidth |-> Infinity, maxHeight |-> Infinity,
     width |-> Null, height |-> Null,
     fitWidthProportion |-> R(0), fitHeightProportion |-> R(0)]

FITTING_ACTION ==
    [NONE |-> "NONE", APPLY_STRETCHING |-> "APPLY_STRETCHING",
     APPLY_SHRINKING |-> "APPLY_SHRINKING", RAISED |-> "Unrecognized fitting mode"]

\* The closure of one calculator: the two axes, the options of the call and
\* the available space.
Calculator(options) ==
    [a |-> AXIS_MAPPINGS(options.orientation),
     b |-> AXIS_MAPPINGS(OPPOSITE_ORIENTATION(options.orientation)),
     options |-> options,
     availableSpace |->
        [x |-> Sub(Sub(options.containerSize.x, options.padding.x), options.padding.z),
         y |-> Sub(Sub(options.containerSize.y, options.padding.y), options.padding.w)]]

\* a minimum extent that takes the pivot to be at the start of the element
minExtentAtPivotZero(k, element, size) == R(0)

minExtentA(k, element, size) == Mul(Neg(size[k.a.size]), element.pivot[k.a.axis])
minExtentB(k, element, size) == Mul(Neg(size[k.b.size]), element.pivot[k.b.axis])
\* the right/bottom extent of an element whose pivot is taken for 0
maxExtentFromOrigin(k, element, size) == size[k.a.size]

maxExtentA(k, element, size) == Mul(size[k.a.size], Sub(R(1), element.pivot[k.a.axis]))

shouldIncludeInLayout(element) ==
    LET layoutChildComponent == element.layoutchild
    IN  ~layoutChildComponent.present \/ ~layoutChildComponent.enabled
        \/ ~layoutChildComponent.excludeFromLayout

Vec4Zero == [x |-> R(0), y |-> R(0), z |-> R(0), w |-> R(0)]

resetAnchors(allElements) ==
    [i \in DOMAIN allElements |-> [allElements[i] EXCEPT !.anchor = Vec4Zero]]

getProperty(element, propertyName) ==
    LET layoutChildComponent == element.layoutchild
    IN  IF layoutChildComponent.present /\ layoutChildComponent.enabled
           /\ layoutChildComponent[propertyName] # Undefined
           /\ layoutChildComponent[propertyName] # Null
        THEN layoutChildComponent[propertyName]
        ELSE IF element[propertyName] # Undefined THEN element[propertyName]
        ELSE PROPERTY_DEFAULTS[propertyName]

clamp(value, min, max) == MathMin(MathMax(Num(value), min), max)

getElementSizeProperties(elements) ==
    [i \in DOMAIN elements |->
        LET element == elements[i]
            minWidth == MathMax(Num(getProperty(element, "minWidth")), R(0))
            minHeight == MathMax(Num(getProperty(element, "minHeight")), R(0))
            maxWidth == MathMax(Num(getProperty(element, "maxWidth")), minWidth)
            maxHeight == MathMax(Num(getProperty(element, "maxHeight")), minHeight)
        IN  [minWidth |-> minWidth, minHeight |-> minHeight,
             maxWidth |-> maxWidth, maxHeight |-> maxHeight,
             width |-> clamp(getProperty(element, "width"), minWidth, maxWidth),
             height |-> clamp(getProperty(element, "height"), minHeight, maxHeight),
             fitWidthProportion |-> Num(getProperty(element, "fitWidthProportion")),
             fitHeightProportion |-> Num(getProperty(element, "fitHeightProportion"))]]

RECURSIVE sumValuesFrom(_, _, _, _)
sumValuesFrom(items, propertyName, i, accumulator) ==
    IF i > Len(items) THEN accumulator
    ELSE sumValuesFrom(items, propertyName, i + 1,
                       Add(accumulator, items[i][propertyName]))

sumValues(items, propertyName) == sumValuesFrom(items, propertyName, 1, R(0))

getNormalizedValues(items, propertyName) ==
    LET sum == sumValues(items, propertyName)
        numItems == Len(items)
    IN  IF sum = R(0) THEN [i \in 1..numItems |-> Div(R(1), R(numItems))]
        ELSE [i \in 1..numItems |-> Div(items[i][propertyName], sum)]

invertNormalizedValues(values) ==
    IF Len(values) = 1 THEN <<R(1)>>
    ELSE [i \in 1..Len(values) |-> Div(Sub(R(1), values[i]), R(Len(values) - 1))]

\* Array.prototype.sort is stable and takes a comparator result of NaN for 0:
\* an item comes before another when the comparator is negative, or is not
\* positive and the item was first.
getTraversalOrder(items, orderBy, descending) ==
    LET cmp(i, j) == IF descending THEN Sub(items[j][orderBy], items[i][orderBy])
                     ELSE Sub(items[i][orderBy], items[j][orderBy])
        before(i, j) == Lt(cmp(i, j), R(0)) \/ (~Gt(cmp(i, j), R(0)) /\ i < j)
        rank(i) == 1 + Cardinality({j \in DOMAIN items : before(j, i)})
    IN  [p \in DOMAIN items |-> CHOOSE i \in DOMAIN items : rank(i) = p]

RECURSIVE createSumArrayFrom(_, _, _, _)
createSumArrayFrom(values, order, i, sumArray) ==
    IF i < 1 THEN sumArray
    ELSE createSumArrayFrom(values, order, i - 1,
            [sumArray EXCEPT ![order[i]] = Add(sumArray[order[i + 1]], values[order[i]])])

createSumArray(values, order) ==
    IF Len(values) = 0 THEN <<>>
    ELSE createSumArrayFrom(values, order, Len(values) - 1,
            [i \in DOMAIN values |-> IF i = order[Len(values)] THEN values[i] ELSE NaN])

Epsilon == <<1, 100000>>

calculateAdjustment(index, remainingAdjustment, fittingProportions, fittingProportionSums) ==
    LET proportion == fittingProportions[index]
        sumOfRemainingProportions == fittingProportionSums[index]
    IN  IF Lt(MathAbs(proportion), Epsilon) /\ Lt(MathAbs(sumOfRemainingProportions), Epsilon)
        THEN remainingAdjustment
        ELSE Div(Mul(remainingAdjustment, proportion), sumOfRemainingProportions)

calculateTotalSpace(k, sizes, axis) ==
    LET totalSizes == sumValues(sizes, axis.size)
        totalSpacing == Mul(R(Len(sizes) - 1), k.options.spacing[axis.axis])
    IN  Add(totalSizes, totalSpacing)

\* determineFittingAction without the comparison of the two sizes
determineFittingActionByModeOnly(fittingMode, currentSize, availableSize) ==
    CASE fittingMode = FITTING_NONE -> FITTING_ACTION.NONE
      [] fittingMode = FITTING_STRETCH -> FITTING_ACTION.APPLY_STRETCHING
      [] fittingMode = FITTING_SHRINK -> FITTING_ACTION.APPLY_SHRINKING
      [] fittingMode = FITTING_BOTH ->
            IF Lt(currentSize, availableSize) THEN FITTING_ACTION.APPLY_STRETCHING
            ELSE FITTING_ACTION.APPLY_SHRINKING
      [] OTHER -> FITTING_ACTION.RAISED

determineFittingAction(fittingMode, currentSize, availableSize) ==
    CASE fittingMode = FITTING_NONE -> FITTING_ACTION.NONE
      [] fittingMode = FITTING_STRETCH ->
            IF Lt(currentSize, availableSize) THEN FITTING_ACTION.APPLY_STRETCHING
            ELSE FITTING_ACTION.NONE
      [] fittingMode = FITTING_SHRINK ->
            IF Ge(currentSize, availableSize) THEN FITTING_ACTION.APPLY_SHRINKING
            ELSE FITTING_ACTION.NONE
      [] fittingMode = FITTING_BOTH ->
            IF Lt(currentSize, availableSize) THEN FITTING_ACTION.APPLY_STRETCHING
            ELSE IF Ge(currentSize, availableSize) THEN FITTING_ACTION.APPLY_SHRINKING
            ELSE FITTING_ACTION.NONE
      [] OTHER -> FITTING_ACTION.RAISED

RECURSIVE stretchFrom(_, _, _, _, _, _, _)
stretchFrom(sizesThisLine, order, proportions, sums, axis, i, remainingUndershoot) ==
    IF i > Len(sizesThisLine) THEN sizesThisLine
    ELSE LET index == order[i]
             targetIncrease == calculateAdjustment(index, remainingUndershoot,
                                                   proportions, sums)
             targetSize == Add(sizesThisLine[index][axis.size], targetIncrease)
             maxSize == sizesThisLine[index][axis.maxSize]
             actualSize == MathMin(targetSize, maxSize)
             actualIncrease == MathMax(Sub(targetSize, actualSize), R(0))
             appliedIncrease == Sub(targetIncrease, actualIncrease)
         IN  stretchFrom([sizesThisLine EXCEPT ![index][axis.size] = actualSize],
                         order, proportions, sums, axis,
                         i + 1, Sub(remainingUndershoot, appliedIncrease))

stretchSizesToFitContainer(k, sizesThisLine, idealRequiredSpace, axis) ==
    LET ascendingMaxSizeOrder == getTraversalOrder(sizesThisLine, axis.maxSize, FALSE)
        fittingProportions == getNormalizedValues(sizesThisLine, axis.fittingProportion)
        fittingProportionSums == createSumArray(fittingProportions, ascendingMaxSizeOrder)
    IN  stretchFrom(sizesThisLine, ascendingMaxSizeOrder, fittingProportions,
                    fittingProportionSums, axis, 1,
                    Sub(k.availableSpace[axis.axis], idealRequiredSpace))

\* the loop of shrinkSizesToFitContainer without the floor at the min size
RECURSIVE shrinkFromBelowMin(_, _, _, _, _, _, _)
shrinkFromBelowMin(sizesThisLine, order, proportions, sums, axis, i, remainingOvershoot) ==
    IF i > Len(sizesThisLine) THEN sizesThisLine
    ELSE LET index == order[i]
             targetReduction == calculateAdjustment(index, remainingOvershoot,
                                                    proportions, sums)
             targetSize == Sub(sizesThisLine[index][axis.size], targetReduction)
         IN  shrinkFromBelowMin([sizesThisLine EXCEPT ![index][axis.size] = targetSize],
                                order, proportions, sums,
                                axis, i + 1, Sub(remainingOvershoot, targetReduction))

RECURSIVE shrinkFrom(_, _, _, _, _, _, _)
shrinkFrom(sizesThisLine, order, proportions, sums, axis, i, remainingOvershoot) ==
    IF i > Len(sizesThisLine) THEN sizesThisLine
    ELSE LET index == order[i]
             targetReduction == calculateAdjustment(index, remainingOvershoot,
                                                    proportions, sums)
             targetSize == Sub(sizesThisLine[index][axis.size], targetReduction)
             minSize == sizesThisLine[index][axis.minSize]
             actualSize == MathMax(targetSize, minSize)
             actualReduction == MathMax(Sub(actualSize, targetSize), R(0))
             appliedReduction == Sub(targetReduction, actualReduction)
         IN  shrinkFrom([sizesThisLine EXCEPT ![index][axis.size] = actualSize],
                        order, proportions, sums,
                        axis, i + 1, Sub(remainingOvershoot, appliedReduction))

shrinkSizesToFitContainer(k, sizesThisLine, idealRequiredSpace, axis) ==
    LET descendingMinSizeOrder == getTraversalOrder(sizesThisLine, axis.minSize, TRUE)
        fittingProportions == getNormalizedValues(sizesThisLine, axis.fittingProportion)
        inverseFittingProportions == invertNormalizedValues(fittingProportions)
        inverseFittingProportionSums ==
            createSumArray(inverseFittingProportions, descendingMinSizeOrder)
    IN  shrinkFrom(sizesThisLine, descendingMinSizeOrder, inverseFittingProportions,
                   inverseFittingProportionSums, axis, 1,
                   Sub(idealRequiredSpace, k.availableSpace[axis.axis]))

applyFitting(k, fittingAction, sizes, idealRequiredSpace, axis) ==
    IF fittingAction = FITTING_ACTION.APPLY_STRETCHING
    THEN stretchSizesToFitContainer(k, sizes, idealRequiredSpace, axis)
    ELSE IF fittingAction = FITTING_ACTION.APPLY_SHRINKING
    THEN shrinkSizesToFitContainer(k, sizes, idealRequiredSpace, axis)
    ELSE sizes

\* A line is the sequence of the positions its elements have in allElements.
Last(s) == s[Len(s)]
AppendToLast(lines, i) == [lines EXCEPT ![Len(lines)] = Append(@, i)]

\* splitLines with the break made as soon as the limit is reached
RECURSIVE splitLinesBreakingAtLimit(_, _, _, _, _, _)
splitLinesBreakingAtLimit(k, sizes, n, i, lines, runningSize) ==
    IF i > n THEN lines
    ELSE LET allowOverrun == (k.options[k.a.fitting] = FITTING_SHRINK)
             spaced == IF Len(Last(lines)) > 0
                       THEN Add(runningSize, k.options.spacing[k.a.axis])
                       ELSE runningSize
             idealElementSize == sizes[i][k.a.size]
             total == Add(spaced, idealElementSize)
             over == Ge(total, k.availableSpace[k.a.axis])
             breakBefore == ~allowOverrun /\ over /\ Len(Last(lines)) # 0
             pushed == AppendToLast(IF breakBefore THEN Append(lines, <<>>) ELSE lines, i)
             breakAfter == allowOverrun /\ over /\ i # n
         IN  splitLinesBreakingAtLimit(k, sizes, n, i + 1,
                 IF breakAfter THEN Append(pushed, <<>>) ELSE pushed,
                 IF breakAfter THEN R(0)
                 ELSE IF breakBefore THEN idealElementSize ELSE total)

\* splitLines with the break after an overrun made after the last element too
RECURSIVE splitLinesBreakingAfterLast(_, _, _, _, _, _)
splitLinesBreakingAfterLast(k, sizes, n, i, lines, runningSize) ==
    IF i > n THEN lines
    ELSE LET allowOverrun == (k.options[k.a.fitting] = FITTING_SHRINK)
             spaced == IF Len(Last(lines)) > 0
                       THEN Add(runningSize, k.options.spacing[k.a.axis])
                       ELSE runningSize
             idealElementSize == sizes[i][k.a.size]
             total == Add(spaced, idealElementSize)
             over == Gt(total, k.availableSpace[k.a.axis])
             breakBefore == ~allowOverrun /\ over /\ Len(Last(lines)) # 0
             pushed == AppendToLast(IF breakBefore THEN Append(lines, <<>>) ELSE lines, i)
             breakAfter == allowOverrun /\ over
         IN  splitLinesBreakingAfterLast(k, sizes, n, i + 1,
                 IF breakAfter THEN Append(pushed, <<>>) ELSE pushed,
                 IF breakAfter THEN R(0)
                 ELSE IF breakBefore THEN idealElementSize ELSE total)

RECURSIVE splitLinesFrom(_, _, _, _, _, _)
splitLinesFrom(k, sizes, n, i, lines, runningSize) ==
    IF i > n THEN lines
    ELSE LET allowOverrun == (k.options[k.a.fitting] = FITTING_SHRINK)
             spaced == IF Len(Last(lines)) > 0
                       THEN Add(runningSize, k.options.spacing[k.a.axis])
                       ELSE runningSize
             idealElementSize == sizes[i][k.a.size]
             total == Add(spaced, idealElementSize)
             over == Gt(total, k.availableSpace[k.a.axis])
             breakBefore == ~allowOverrun /\ over /\ Len(Last(lines)) # 0
             pushed == AppendToLast(IF breakBefore THEN Append(lines, <<>>) ELSE lines, i)
             breakAfter == allowOverrun /\ over /\ i # n
         IN  splitLinesFrom(k, sizes, n, i + 1,
                 IF breakAfter THEN Append(pushed, <<>>) ELSE pushed,
                 IF breakAfter THEN R(0)
                 ELSE IF breakBefore THEN idealElementSize ELSE total)

splitLines(k, allElements) ==
    IF ~k.options.wrap THEN << [i \in 1..Len(allElements) |-> i] >>
    ELSE splitLinesFrom(k, getElementSizeProperties(allElements),
                        Len(allElements), 1, << <<>> >>, R(0))

Reverse(s) == [i \in 1..Len(s) |-> s[Len(s) + 1 - i]]

reverseLinesIfRequired(k, lines) ==
    LET reverseAxisA ==
            (k.options.orientation = ORIENTATION_HORIZONTAL /\ k.options.reverseX)
            \/ (k.options.orientation = ORIENTATION_VERTICAL /\ k.options.reverseY)
        reverseAxisB ==
            (k.options.orientation = ORIENTATION_HORIZONTAL /\ k.options.reverseY)
            \/ (k.options.orientation = ORIENTATION_VERTICAL /\ k.options.reverseX)
        reversedA == IF reverseAxisA
                     THEN [l \in DOMAIN lines |-> Reverse(lines[l])]
                     ELSE lines
    IN  IF reverseAxisB THEN Reverse(reversedA) ELSE reversedA

ElementsOf(allElements, line) == [e \in DOMAIN line |-> allElements[line[e]]]

\* The sizes of every line on axis A; raised when determineFittingAction throws,
\* which it does for the first line (there is always one).
calculateSizesOnAxisA(k, allElements, lines) ==
    LET fitted(line) ==
            LET sizesThisLine == getElementSizeProperties(ElementsOf(allElements, line))
                idealRequiredSpace == calculateTotalSpace(k, sizesThisLine, k.a)
                fittingAction == determineFittingAction(k.options[k.a.fitting],
                                     idealRequiredSpace, k.availableSpace[k.a.axis])
            IN  applyFitting(k, fittingAction, sizesThisLine, idealRequiredSpace, k.a)
    IN  IF determineFittingAction(k.options[k.a.fitting], R(0), R(0)) = FITTING_ACTION.RAISED
        THEN [raised |-> TRUE, sizes |-> <<>>]
        ELSE [raised |-> FALSE, sizes |-> [l \in DOMAIN lines |-> fitted(lines[l])]]

\* line.largestSize of a line without elements: the two sizes are -Infinity and
\* every other property is missing, which reads as NaN in the arithmetic.
NoLargestSize ==
    [minWidth |-> NaN, minHeight |-> NaN, maxWidth |-> NaN, maxHeight |-> NaN,
     width |-> NegInfinity, height |-> NegInfinity,
     fitWidthProportion |-> NaN, fitHeightProportion |-> NaN]

\* The position in the line of line.largestElement, 0 when there is none.
RECURSIVE largestElementFrom(_, _, _, _)
largestElementFrom(k, sizesThisLine, elementIndex, largest) ==
    IF elementIndex > Len(sizesThisLine) THEN largest
    ELSE LET largestSize == IF largest = 0 THEN NoLargestSize ELSE sizesThisLine[largest]
         IN  largestElementFrom(k, sizesThisLine, elementIndex + 1,
                 IF Gt(sizesThisLine[elementIndex][k.b.size], largestSize[k.b.size])
                 THEN elementIndex ELSE largest)

\* The third loop of calculateSizesOnAxisB for one line.  line.largestSize is
\* the size object of the largest element itself, so its current value is read.
RECURSIVE fitElementsOnAxisB(_, _, _, _, _, _)
fitElementsOnAxisB(k, numLines, sizesThisLine, largest, noLargest, elementIndex) ==
    IF elementIndex > Len(sizesThisLine) THEN sizesThisLine
    ELSE LET sizesForThisElement == sizesThisLine[elementIndex]
             currentSize == sizesForThisElement[k.b.size]
             largestSize == IF largest = 0 THEN noLargest ELSE sizesThisLine[largest]
             availableSize == IF numLines = 1 THEN k.availableSpace[k.b.axis]
                              ELSE largestSize[k.b.size]
             elementFittingAction ==
                 determineFittingAction(k.options[k.b.fitting], currentSize, availableSize)
             newSize ==
                 IF elementFittingAction = FITTING_ACTION.APPLY_STRETCHING
                 THEN MathMin(availableSize, sizesForThisElement[k.b.maxSize])
                 ELSE IF elementFittingAction = FITTING_ACTION.APPLY_SHRINKING
                 THEN MathMax(availableSize, sizesForThisElement[k.b.minSize])
                 ELSE currentSize
         IN  fitElementsOnAxisB(k, numLines,
                 [sizesThisLine EXCEPT ![elementIndex][k.b.size] = newSize],
                 largest, noLargest, elementIndex + 1)

\* The sizes of every line on both axes and line.largestSize of every line.
calculateSizesOnAxisB(k, lines, sizesAllLines) ==
    LET largest == [l \in DOMAIN lines |-> largestElementFrom(k, sizesAllLines[l], 1, 0)]
        largestSizesForEachLine ==
            [l \in DOMAIN lines |->
                IF largest[l] = 0 THEN NoLargestSize ELSE sizesAllLines[l][largest[l]]]
        idealRequiredSpace == calculateTotalSpace(k, largestSizesForEachLine, k.b)
        fittingAction == determineFittingAction(k.options[k.b.fitting],
                             idealRequiredSpace, k.availableSpace[k.b.axis])
        fittedLargest == applyFitting(k, fittingAction, largestSizesForEachLine,
                                      idealRequiredSpace, k.b)
        withLargest ==
            [l \in DOMAIN lines |->
                IF largest[l] = 0 THEN sizesAllLines[l]
                ELSE [sizesAllLines[l] EXCEPT ![largest[l]] = fittedLargest[l]]]
        fitted ==
            [l \in DOMAIN lines |->
                fitElementsOnAxisB(k, Len(lines), withLargest[l], largest[l],
                                   fittedLargest[l], 1)]
    IN  IF fittingAction = FITTING_ACTION.RAISED
        THEN [raised |-> TRUE, sizes |-> <<>>, largestSize |-> <<>>]
        ELSE [raised |-> FALSE, sizes |-> fitted,
              largestSize |-> [l \in DOMAIN lines |->
                  IF largest[l] = 0 THEN fittedLargest[l] ELSE fitted[l][largest[l]]]]

Point(k, onA, onB) == [f \in {"x", "y"} |-> IF f = k.a.axis THEN onA ELSE onB]

\* The positions of one line's elements and the cursor after the last of them.
RECURSIVE positionsFrom(_, _, _, _, _, _)
positionsFrom(k, elementsThisLine, sizesThisLine, elementIndex, cursor, positionsThisLine) ==
    IF elementIndex > Len(elementsThisLine)
    THEN [positions |-> positionsThisLine, cursor |-> cursor]
    ELSE LET element == elementsThisLine[elementIndex]
             sizesThisElement == sizesThisLine[elementIndex]
             onB == Sub(cursor[k.b.axis], minExtentB(k, element, sizesThisElement))
             onA == Sub(cursor[k.a.axis], minExtentA(k, element, sizesThisElement))
         IN  positionsFrom(k, elementsThisLine, sizesThisLine, elementIndex + 1,
                 Point(k, Add(onA, Add(maxExtentA(k, element, sizesThisElement),
                                       k.options.spacing[k.a.axis])),
                          Add(onB, minExtentB(k, element, sizesThisElement))),
                 Append(positionsThisLine, Point(k, onA, onB)))

\* The size of a line: line.width and line.height, both missing when the line
\* has no elements.
NoLineSize == [width |-> Undefined, height |-> Undefined]
LineSize(k, onA, onB) == [f \in {"width", "height"} |-> IF f = k.a.size THEN onA ELSE onB]

RECURSIVE calculateBasePositionsFrom(_, _, _, _, _, _, _)
calculateBasePositionsFrom(k, allElements, lines, sizes, largestSize, lineIndex, acc) ==
    IF lineIndex > Len(lines)
    THEN [positions |-> acc.positions, lineSizes |-> acc.lineSizes,
          linesSize |-> LineSize(k, acc.longest,
                            Sub(acc.cursor[k.b.axis], k.options.spacing[k.b.axis]))]
    ELSE LET line == lines[lineIndex]
             placed == positionsFrom(k, ElementsOf(allElements, line), sizes[lineIndex],
                                     1, acc.cursor, <<>>)
             lineA == Sub(placed.cursor[k.a.axis], k.options.spacing[k.a.axis])
             lineB == largestSize[lineIndex][k.b.size]
         IN  IF Len(line) = 0
             THEN calculateBasePositionsFrom(k, allElements, lines, sizes, largestSize,
                      lineIndex + 1,
                      [acc EXCEPT !.positions = Append(@, <<>>),
                                  !.lineSizes = Append(@, NoLineSize)])
             ELSE calculateBasePositionsFrom(k, allElements, lines, sizes, largestSize,
                      lineIndex + 1,
                      [positions |-> Append(acc.positions, placed.positions),
                       lineSizes |-> Append(acc.lineSizes, LineSize(k, lineA, lineB)),
                       longest |-> MathMax(acc.longest, lineA),
                       cursor |-> Point(k, R(0),
                                     Add(placed.cursor[k.b.axis],
                                         Add(lineB, k.options.spacing[k.b.axis])))])

calculateBasePositions(k, allElements, lines, sizes, largestSize) ==
    calculateBasePositionsFrom(k, allElements, lines, sizes, largestSize, 1,
        [positions |-> <<>>, lineSizes |-> <<>>, longest |-> NegInfinity,
         cursor |-> Point(k, R(0), R(0))])

applyAlignmentAndPadding(k, lines, sizes, base) ==
    LET alignmentA == k.options.alignment[k.a.axis]
        alignmentB == k.options.alignment[k.b.axis]
        paddingA == k.options.padding[k.a.axis]
        paddingB == k.options.padding[k.b.axis]
        moved(lineIndex, elementIndex) ==
            LET line == base.lineSizes[lineIndex]
                axisAOffset == Add(Mul(Sub(k.availableSpace[k.a.axis], Num(line[k.a.size])),
                                       alignmentA), paddingA)
                axisBOffset == Add(Mul(Sub(k.availableSpace[k.b.axis],
                                           base.linesSize[k.b.size]), alignmentB), paddingB)
                withinLineAxisBOffset ==
                    Mul(Sub(Num(line[k.b.size]), sizes[lineIndex][elementIndex][k.b.size]),
                        k.options.alignment[k.b.axis])
                position == base.positions[lineIndex][elementIndex]
            IN  Point(k, Add(position[k.a.axis], axisAOffset),
                         Add(position[k.b.axis], Add(axisBOffset, withinLineAxisBOffset)))
    IN  [lineIndex \in DOMAIN lines |->
            [elementIndex \in DOMAIN lines[lineIndex] |-> moved(lineIndex, elementIndex)]]

\* The elements with the calculated sizes and the local positions written back.
applySizesAndPositions(k, allElements, lines, sizes, positions) ==
    [i \in DOMAIN allElements |->
        LET lineIndex == CHOOSE l \in DOMAIN lines : \E e \in DOMAIN lines[l] : lines[l][e] = i
            elementIndex == CHOOSE e \in DOMAIN lines[lineIndex] : lines[lineIndex][e] = i
        IN  [allElements[i] EXCEPT
                !.calculatedWidth = sizes[lineIndex][elementIndex].width,
                !.calculatedHeight = sizes[lineIndex][elementIndex].height,
                !.position = positions[lineIndex][elementIndex]]]

createLayoutInfo(k, linesSize) ==
    LET layoutWidth == linesSize.width
        layoutHeight == linesSize.height
        xOffset == Add(Mul(Sub(k.availableSpace.x, layoutWidth), k.options.alignment.x),
                       k.options.padding.x)
        yOffset == Add(Mul(Sub(k.availableSpace.y, layoutHeight), k.options.alignment.y),
                       k.options.padding.y)
    IN  [x |-> xOffset, y |-> yOffset, z |-> layoutWidth, w |-> layoutHeight]

\* calculateAll, written as its steps in the order of the code, each step
\* handing what was computed so far to the next.  An element of allElements is
\* named by its position in the filtered list; included maps that position to
\* the position in the list the caller passed.
written(elements, included, final) ==
    [i \in 1..Len(elements) |->
        IF \E p \in 1..Len(included) : included[p] = i
        THEN final[CHOOSE p \in 1..Len(included) : included[p] = i]
        ELSE elements[i]]

raisedInCalculateAll(k, elements, included, allElements) ==
    [raised |-> "Unrecognized fitting mode",
     elements |-> written(elements, included, allElements),
     availableSpace |-> k.availableSpace, included |-> included]

returnLayoutInfo(k, elements, included, allElements, lines, sizes, base, positions) ==
    [raised |-> "none",
     elements |-> written(elements, included,
                      applySizesAndPositions(k, allElements, lines, sizes, positions)),
     availableSpace |-> k.availableSpace, included |-> included,
     lines |-> lines, sizes |-> sizes, positions |-> positions,
     lineSizes |-> base.lineSizes, linesSize |-> base.linesSize,
     bounds |-> createLayoutInfo(k, base.linesSize)]

withBasePositions(k, elements, included, allElements, lines, sizes, base) ==
    returnLayoutInfo(k, elements, included, allElements, lines, sizes, base,
        applyAlignmentAndPadding(k, lines, sizes, base))

withSizesOnAxisB(k, elements, included, allElements, lines, onB) ==
    IF onB.raised THEN raisedInCalculateAll(k, elements, included, allElements)
    ELSE withBasePositions(k, elements, included, allElements, lines, onB.sizes,
             calculateBasePositions(k, allElements, lines, onB.sizes, onB.largestSize))

withSizesOnAxisA(k, elements, included, allElements, lines, onA) ==
    IF onA.raised THEN raisedInCalculateAll(k, elements, included, allElements)
    ELSE withSizesOnAxisB(k, elements, included, allElements, lines,
             calculateSizesOnAxisB(k, lines, onA.sizes))

withLines(k, elements, included, allElements, lines) ==
    withSizesOnAxisA(k, elements, included, allElements, lines,
        calculateSizesOnAxisA(k, allElements, lines))

withAllElements(k, elements, included, allElements) ==
    withLines(k, elements, included, allElements,
        reverseLinesIfRequired(k, splitLines(k, allElements)))

withIncluded(k, elements, included) ==
    withAllElements(k, elements, included,
        resetAnchors([p \in 1..Len(included) |-> elements[included[p]]]))

calculateAll(elements, options) ==
    withIncluded(Calculator(options), elements,
        SelectSeq([i \in 1..Len(elements) |-> i],
                  LAMBDA i : shouldIncludeInLayout(elements[i])))

\* CALCULATE_FNS is a plain object: reading a key finds the two calculators it
\* was given and, for any other key, what Object.prototype has under that name.
ObjectPrototype ==
    [constructor |-> "Object", toString |-> "Object.prototype.toString",
     hasOwnProperty |-> "Object.prototype.hasOwnProperty"]

CALCULATE_FNS(orientation) ==
    IF orientation \in {ORIENTATION_HORIZONTAL, ORIENTATION_VERTICAL} THEN "calculateAll"
    ELSE IF orientation \in DOMAIN ObjectPrototype THEN ObjectPrototype[orientation]
    ELSE "undefined"

\* calculateFn is called as a plain function, so an inherited function runs
\* with no receiver: Object(elements) is elements, toString gives
\* "[object Undefined]" and hasOwnProperty raises a TypeError.
calculateLayout(elements, options) ==
    LET calculateFn == CALCULATE_FNS(options.orientation)
    IN  IF calculateFn = "undefined"
        THEN [raised |-> "Unrecognized orientation value", elements |-> elements]
        ELSE IF calculateFn = "calculateAll" THEN calculateAll(elements, options)
        ELSE IF calculateFn = "Object"
        THEN [raised |-> "none", elements |-> elements, returned |-> "elements"]
        ELSE IF calculateFn = "Object.prototype.toString"
        THEN [raised |-> "none", elements |-> elements, returned |-> "[object Undefined]"]
        ELSE [raised |-> "TypeError", elements |-> elements]

\* One call of calculateLayout on the elements and the options that were drawn.
CalculateLayout ==
    /\ layout.op = "input"
    /\ layout' = [op |-> "calculateLayout", elements |-> layout.elements,
                  options |-> layout.options,
                  result |-> calculateLayout(layout.elements, layout.options)]
    /\ UNCHANGED <<compVars, call, animVars, scene>>

\* --- the elements and the options the calls are made with -----------------

NoLayoutChild ==
    [present |-> FALSE, enabled |-> FALSE, excludeFromLayout |-> FALSE,
     minWidth |-> Undefined, minHeight |-> Undefined,
     maxWidth |-> Undefined, maxHeight |-> Undefined,
     width |-> Undefined, height |-> Undefined,
     fitWidthProportion |-> Undefined, fitHeightProportion |-> Undefined]

\* A layoutchild component as it is constructed: limits 0 and null, not excluded.
LayoutChild ==
    [present |-> TRUE, enabled |-> TRUE, excludeFromLayout |-> FALSE,
     minWidth |-> R(0), minHeight |-> R(0),
     maxWidth |-> Null, maxHeight |-> Null,
     width |-> Undefined, height |-> Undefined,
     fitWidthProportion |-> R(0), fitHeightProportion |-> R(0)]

\* An element component of the given size and pivot, not yet laid out.
Element(width, height, pivot, layoutchild) ==
    [width |-> width, height |-> height,
     minWidth |-> Undefined, minHeight |-> Undefined,
     maxWidth |-> Undefined, maxHeight |-> Undefined,
     fitWidthProportion |-> Undefined, fitHeightProportion |-> Undefined,
     pivot |-> [x |-> pivot, y |-> pivot],
     anchor |-> [x |-> R(0), y |-> R(0), z |-> R(1), w |-> R(1)],
     layoutchild |-> layoutchild,
     calculatedWidth |-> width, calculatedHeight |-> height,
     position |-> [x |-> R(0), y |-> R(0)]]

Square(size, pivot) == Element(R(size), R(size), pivot, NoLayoutChild)

Half == <<1, 2>>

MaxElements == 3

SeqsUpTo(S, n) == UNION {[1..m -> S] : m \in 0..n}

Options(orientation, wrap, fittingA, fittingB, spacing, padding, alignment, size) ==
    [orientation |-> orientation, wrap |-> wrap,
     widthFitting |-> IF orientation = ORIENTATION_VERTICAL THEN fittingB ELSE fittingA,
     heightFitting |-> IF orientation = ORIENTATION_VERTICAL THEN fittingA ELSE fittingB,
     spacing |-> [x |-> spacing, y |-> spacing],
     padding |-> [x |-> padding, y |-> padding, z |-> padding, w |-> padding],
     alignment |-> [x |-> alignment, y |-> alignment],
     containerSize |-> [x |-> size, y |-> size],
     reverseX |-> FALSE, reverseY |-> FALSE]

\* an element whose layoutchild raises its ideal size to 2
Clamped ==
    Element(R(1), R(1), R(0),
            [LayoutChild EXCEPT !.minWidth = R(2), !.minHeight = R(2)])

\* an element that its layoutchild keeps out of the layout
Excluded == Element(R(3), R(3), Half, [LayoutChild EXCEPT !.excludeFromLayout = TRUE])

Fittings == {FITTING_NONE, FITTING_STRETCH, FITTING_SHRINK, FITTING_BOTH}
Orientations == {ORIENTATION_HORIZONTAL, ORIENTATION_VERTICAL}

LayoutInput(elements, options) ==
    [op |-> "input", elements |-> elements, options |-> options]

WrapElements == {Square(1, R(0)), Square(2, Half), Square(3, R(1)), Clamped, Excluded}

WrapOptions ==
    { Options(orientation, TRUE, fittingA, FITTING_NONE, R(spacing), R(padding),
              R(0), R(size)) :
        orientation \in Orientations, fittingA \in Fittings,
        spacing \in {0, 1}, padding \in {0, 1}, size \in {4} }

LineElements == {Square(1, R(0)), Square(2, Half), Square(3, R(1)), Clamped}

LineOptions ==
    { Options(orientation, FALSE, FITTING_NONE, fittingB, R(spacing), R(padding),
              alignment, R(size)) :
        orientation \in Orientations, fittingB \in {FITTING_NONE, FITTING_STRETCH},
        spacing \in {0, 1}, padding \in {0, 1},
        alignment \in {R(0), Half, R(1)}, size \in {2, 7} }

\* an element of the given size whose layoutchild limits it to max and gives
\* it the fitting proportion fit
Limited(size, max, fit) ==
    Element(R(size), R(size), R(0),
            [LayoutChild EXCEPT !.maxWidth = R(max), !.maxHeight = R(max),
                                !.fitWidthProportion = fit,
                                !.fitHeightProportion = fit])

StretchElements ==
    {Limited(1, 2, R(0)), Limited(0, 5, R(1)), Limited(6, 7, R(1)),
     Limited(1, 4, R(3)), Square(2, Half)}

StretchOptions ==
    { Options(orientation, FALSE, FITTING_STRETCH, fittingB, R(spacing), R(0),
              R(0), R(size)) :
        orientation \in Orientations, fittingB \in {FITTING_NONE, FITTING_STRETCH},
        spacing \in {0, 1}, size \in {10, 12} }


\* elements of three sizes with their pivot at the start, the middle and the end
PlaceElements == {Square(1, R(0)), Square(2, Half), Square(3, R(1))}

PlaceOptions ==
    { Options(orientation, wrap, FITTING_NONE, FITTING_NONE, R(spacing), R(padding),
              alignment, R(6)) :
        orientation \in Orientations, wrap \in BOOLEAN,
        spacing \in {0, 1}, padding \in {0, 1}, alignment \in {R(0), Half} }

\* an element of the given size whose layoutchild gives it the limits min and
\* max on both axes
Ranged(size, min, max) ==
    Element(R(size), R(size), R(0),
            [LayoutChild EXCEPT !.minWidth = R(min), !.minHeight = R(min),
                                !.maxWidth = R(max), !.maxHeight = R(max)])

\* an element without limits, one between its limits, and one below its min
\* whose max is below the min
FitElements == {Square(2, Half), Ranged(3, 1, 4), Ranged(1, 2, 1)}

FitOptions ==
    { Options(orientation, wrap, fittingA, fittingB, R(1), R(0), R(0), R(size)) :
        orientation \in Orientations, wrap \in BOOLEAN,
        fittingA \in Fittings, fittingB \in Fittings, size \in {3, 9} }

\* orientations and fitting modes that are not among the constants: a value
\* nothing is known under and three names Object.prototype knows
ErrorOrientations ==
    Orientations \cup {"diagonal", "constructor", "toString", "hasOwnProperty"}
ErrorFittings == Fittings \cup {"fill"}
ErrorElements == {Square(1, R(0)), Excluded}

ErrorOptions ==
    { Options(orientation, wrap, fittingA, fittingB, R(0), R(0), R(0), R(2)) :
        orientation \in ErrorOrientations, wrap \in BOOLEAN,
        fittingA \in ErrorFittings, fittingB \in ErrorFittings }

(***************************************************************************)
(* Specifications                                                          *)
(***************************************************************************)

InitComponent == CompInit /\ AnimInit /\ ModelInit /\ LayoutInit /\ call = NoCall

CompNext ==
    \/ \E name \in SchemaNames : \E value \in PropValues(name) : SetProperty(name, value)
    \/ \E v \in BOOLEAN : SetEntityEnabled(v)

SpecComponent == InitComponent /\ [][CompNext]_vars

InitComponentData == DetachedInit /\ AnimInit /\ ModelInit /\ LayoutInit /\ call = NoCall

ComponentDataNext ==
    \/ AddRecord
    \/ RemoveRecord
    \/ ReadData
    \/ \E name \in SchemaNames : \E value \in PropValues(name) : SetProperty(name, value)
    \/ \E v \in BOOLEAN : SetEntityEnabled(v)

SpecComponentData == InitComponentData /\ [][ComponentDataNext]_vars

InitAnim == CompInit /\ AnimInit /\ ModelInit /\ LayoutInit /\ call = NoCall

\* the parameters, the triggers and the frame update of the animation component
AnimNext ==
    \/ \E g \in Graphs : LoadStateGraph(g)
    \/ RemoveStateGraph
    \/ Reset
    \/ \E n \in LayerNames : \E m \in LayerMasks : AddLayer(n, m)
    \/ \E n \in ParamNames : \E v \in {"0.5"} : SetFloat(n, v)
    \/ \E n \in ParamNames : \E v \in {"0", "0.5"} : SetInteger(n, v)
    \/ \E n \in ParamNames : \E v \in {"true", "0"} : SetBoolean(n, v)
    \/ \E n \in ParamNames : \E singleFrame \in BOOLEAN : SetTrigger(n, singleFrame)
    \/ \E n \in ParamNames : ResetTrigger(n)
    \/ \E v \in Speeds : SetSpeed(v)
    \/ \E dt \in Dts : \E taken \in [1..Len(anim.layers) -> BOOLEAN] : Update(dt, taken)

SpecAnim == InitAnim /\ [][AnimNext]_vars

InitAnimGraph == CompInit /\ AnimInit /\ ModelInit /\ LayoutInit /\ call = NoCall

\* the state graph, its asset and the animation-asset manifest
AnimGraphNext ==
    \/ \E v \in {"null", "9"} \cup GraphAssets : SetStateGraphAsset(v)
    \/ \E id \in GraphAssets : AssetLoad(id)
    \/ \E id \in GraphAssets : \E g \in Graphs : AssetChange(id, g)
    \/ \E g \in Graphs : LoadStateGraph(g)
    \/ RemoveStateGraph
    \/ \E n \in LayerNames : \E m \in LayerMasks : AddLayer(n, m)
    \/ \E m \in ManifestInputs : SetAnimationAssets(m)
    \/ \E v \in BOOLEAN : SetPlaying(v)
    \/ \E n \in ParamNames : SetBoolean(n, "true")

SpecAnimGraph == InitAnimGraph /\ [][AnimGraphNext]_vars

InitAnimLoad == CompInit /\ AnimInit /\ ModelInit /\ LayoutInit /\ call = NoCall

\* animation assets that load after the manifest has named them
AnimLoadNext ==
    \/ \E g \in Graphs : LoadStateGraph(g)
    \/ RemoveStateGraph
    \/ \E m \in LateManifestInputs : SetAnimationAssets(m)
    \/ \E id \in UnloadedAnimationAssets : AnimationAssetLoad(id)
    \/ \E v \in BOOLEAN : SetPlaying(v)

SpecAnimLoad == InitAnimLoad /\ [][AnimLoadNext]_vars

InitModel == CompInit /\ AnimInit /\ ModelInit /\ LayoutInit /\ call = NoCall

\* the model and the asset of two model components
ModelNext ==
    \/ \E c \in ModelComponents : \E v \in {"null", "1"} : SetAsset(c, v)
    \/ \E c \in ModelComponents :
         \E v \in {"null", "u1"} \cup {scene.comps[d].model : d \in ModelComponents} :
            SetModel(c, v)
    \/ ModelAssetLoad("1")
    \/ ModelAssetUnload("1")

SpecModel == InitModel /\ [][ModelNext]_vars

InitModelAsset == CompInit /\ AnimInit /\ ModelInit /\ LayoutInit /\ call = NoCall

\* the asset and the type of one model component, and the events of its asset
ModelAssetNext ==
    \/ \E v \in {"null", "1", "2"} : SetAsset("c1", v)
    \/ \E v \in {"asset", "box"} : SetType("c1", v)
    \/ \E v \in BOOLEAN : SetEnabled("c1", v)
    \/ ModelAssetLoad("1")
    \/ ModelAssetUnload("1")
    \/ ModelAssetRemove("1")
    \/ ModelAssetAdd("1")

SpecModelAsset == InitModelAsset /\ [][ModelAssetNext]_vars

InitModelLayers == CompInit /\ AnimInit /\ ModelInit /\ LayoutInit /\ call = NoCall

\* the layers of one model component, and the events of its asset
ModelLayersNext ==
    \/ \E v \in {"null", "1"} : SetAsset("c1", v)
    \/ \E v \in LayerInputs : SetLayers("c1", v)
    \/ SetLayersToOwn("c1")
    \/ \E m \in {EmptyMap, [i \in {0, 1} |-> IF i = 0 THEN "null" ELSE "5"]} :
          SetMapping("c1", m)
    \/ \E v \in BOOLEAN : SetEnabled("c1", v)
    \/ ModelAssetLoad("1")
    \/ ModelAssetUnload("1")
    \/ ModelAssetRemove("1")
    \/ ModelAssetAdd("1")

SpecModelLayers == InitModelLayers /\ [][ModelLayersNext]_vars

InitModelMapping == CompInit /\ AnimInit /\ ModelInit /\ LayoutInit /\ call = NoCall

\* the mapping of one model component, and the events of the assets
ModelMappingNext ==
    \/ \E v \in {"null", "1", "2", "3"} : SetAsset("c1", v)
    \/ \E m \in MappingInputs : SetMapping("c1", m)
    \/ \E v \in BOOLEAN : SetEnabled("c1", v)
    \/ ModelAssetLoad("1")
    \/ ModelAssetUnload("1")
    \/ ModelAssetChange("1")
    \/ MaterialAssetLoad("6")

SpecModelMapping == InitModelMapping /\ [][ModelMappingNext]_vars

InitModelShadows == CompInit /\ AnimInit /\ ModelInit /\ LayoutInit /\ call = NoCall

\* the writes that reach the layers of one model component, enabled or not
ModelShadowsNext ==
    \/ \E v \in {"null", "u1"} : SetModel("c1", v)
    \/ \E v \in {"null", "1"} : SetAsset("c1", v)
    \/ \E v \in LayerInputs : SetLayers("c1", v)
    \/ \E v \in BOOLEAN : SetCastShadows("c1", v)
    \/ \E v \in BatchGroupIds : SetBatchGroupId("c1", v)
    \/ \E v \in BOOLEAN : SetEnabled("c1", v)
    \/ ModelAssetLoad("1")

SpecModelShadows == InitModelShadows /\ [][ModelShadowsNext]_vars

InitModelBatch == CompInit /\ AnimInit /\ ModelInit /\ LayoutInit /\ call = NoCall

\* the batch group of one model component on an enabled entity
ModelBatchNext ==
    \/ \E v \in BatchGroupIds \cup {1} : SetBatchGroupId("c1", v)
    \/ \E v \in BOOLEAN : SetEnabled("c1", v)
    \/ \E v \in {"null", "u1"} : SetModel("c1", v)
    \/ \E v \in LayerInputs : SetLayers("c1", v)

SpecModelBatch == InitModelBatch /\ [][ModelBatchNext]_vars

InitModelMaterial == CompInit /\ AnimInit /\ ModelInit /\ LayoutInit /\ call = NoCall

\* the material asset of one model component over disable/enable cycles
ModelMaterialNext ==
    \/ \E v \in {"null", "5", "6", "8"} : SetMaterialAsset("c1", v)
    \/ \E v \in BOOLEAN : SetEnabled("c1", v)
    \/ \E v \in {"asset", "box"} : SetType("c1", v)
    \/ MaterialAssetLoad("6")

SpecModelMaterial == InitModelMaterial /\ [][ModelMaterialNext]_vars

InitLayoutWrap ==
    /\ CompInit /\ AnimInit /\ ModelInit /\ call = NoCall
    /\ \E elements \in SeqsUpTo(WrapElements, MaxElements) : \E options \in WrapOptions :
          layout = LayoutInput(elements, options)

\* calculateLayout applied to each of the inputs drawn
LayoutNext == CalculateLayout

\* wrapped layouts under the four fitting modes of the primary axis
SpecLayoutWrap == InitLayoutWrap /\ [][LayoutNext]_vars

InitLayoutLine ==
    /\ CompInit /\ AnimInit /\ ModelInit /\ call = NoCall
    /\ \E elements \in SeqsUpTo(LineElements, MaxElements) : \E options \in LineOptions :
          layout = LayoutInput(elements, options)

LayoutLineNext == CalculateLayout

\* single lines without fitting on the primary axis
SpecLayoutLine == InitLayoutLine /\ [][LayoutLineNext]_vars

InitLayoutStretch ==
    /\ CompInit /\ AnimInit /\ ModelInit /\ call = NoCall
    /\ \E elements \in SeqsUpTo(StretchElements, MaxElements) : \E options \in StretchOptions :
          layout = LayoutInput(elements, options)

LayoutStretchNext == CalculateLayout

\* single lines stretched on the primary axis, with limited elements
SpecLayoutStretch == InitLayoutStretch /\ [][LayoutStretchNext]_vars

InitLayoutErrors ==
    /\ CompInit /\ AnimInit /\ ModelInit /\ call = NoCall
    /\ \E elements \in SeqsUpTo(ErrorElements, MaxElements) :
         \E options \in ErrorOptions : layout = LayoutInput(elements, options)

LayoutErrorsNext == CalculateLayout

SpecLayoutErrors == InitLayoutErrors /\ [][LayoutErrorsNext]_vars

InitLayoutFit ==
    /\ CompInit /\ AnimInit /\ ModelInit /\ call = NoCall
    /\ \E elements \in SeqsUpTo(FitElements, MaxElements) :
         \E options \in FitOptions : layout = LayoutInput(elements, options)

LayoutFitNext == CalculateLayout

\* every fitting mode on both axes, wrapped and not, with limited elements
SpecLayoutFit == InitLayoutFit /\ [][LayoutFitNext]_vars

InitLayoutPlace ==
    /\ CompInit /\ AnimInit /\ ModelInit /\ call = NoCall
    /\ \E elements \in SeqsUpTo(PlaceElements, MaxElements) :
         \E options \in PlaceOptions : layout = LayoutInput(elements, options)

LayoutPlaceNext == CalculateLayout

\* lines of elements with different pivots, spaced, padded and aligned
SpecLayoutPlace == InitLayoutPlace /\ [][LayoutPlaceNext]_vars

(***************************************************************************)
(* Claims about the component base                                         *)
(***************************************************************************)

\* the step is a write, through its accessor, of a schema-declared property
IsWrite == call'.op = "set" /\ ~DataIsNull

\* the two events a write delivers, carrying (name, old value, new value)
SetEvents(name, oldValue, newValue) ==
    << <<"set", name, oldValue, newValue>>,
       <<"set_" \o name, name, oldValue, newValue>> >>

\* C1: every write of a value different from the one held stores the new value
\* and fires exactly one `set` and exactly one `set_<name>` event, each carrying
\* (name, old value, new value).
C1_WriteNewValueFiresOnce ==
    [][ (IsWrite /\ Data[call'.name] # call'.value) =>
          /\ Data'[call'.name] = call'.value
          /\ fired' = SetEvents(call'.name, Data[call'.name], call'.value) ]_vars

\* a write of a new value has just fired its two events
C1_Witness ==
    /\ call.op = "set"
    /\ Len(fired) = 2
    /\ fired[1][3] # fired[1][4]
    /\ Data[call.name] = call.value

\* C2 (as stated): a write of the value the property already holds fires no
\* `set` and no `set_<name>` event.
C2_SameValueFiresNothing ==
    [][ (IsWrite /\ Data[call'.name] = call'.value) => fired' = <<>> ]_vars

\* C2 (amended): a write of the value the property already holds leaves the
\* stored value as it is and fires exactly one `set` and one `set_<name>` event,
\* each carrying (name, value, value).
C2_SameValueFiresOnce ==
    [][ (IsWrite /\ Data[call'.name] = call'.value) =>
          /\ Data' = Data
          /\ fired' = SetEvents(call'.name, call'.value, call'.value) ]_vars

\* a write of the value already held has just fired its two events
C2_Witness ==
    /\ call.op = "set"
    /\ Len(fired) = 2
    /\ fired[1][3] = fired[1][4]
    /\ fired[2][1] = "set_" \o call.name

\* C3: while the entity is enabled, a write to `enabled` invokes onEnable exactly
\* once when it changes the value to true, onDisable exactly once when it changes
\* the value to false, and no hook when it writes the value already held; so
\* onEnable is never invoked twice without an onDisable in between.
C3_EnabledEdgeHooks ==
    [][ /\ (IsWrite /\ call'.name = "enabled" /\ entityEnabled) =>
              hooks' = IF Data.enabled = call'.value THEN <<>>
                       ELSE IF call'.value = "true" THEN <<"onEnable">>
                       ELSE <<"onDisable">>
        /\ (entityEnabled /\ entityEnabled' /\ lastHook = "onEnable") =>
              \A i \in DOMAIN hooks' : hooks'[i] # "onEnable" ]_vars

\* on an enabled entity, `enabled` was written true again after an onEnable and
\* no hook was invoked
C3_Witness ==
    /\ call = [op |-> "set", name |-> "enabled", value |-> "true"]
    /\ entityEnabled
    /\ lastHook = "onEnable"
    /\ hooks = <<>>
    /\ fired = SetEvents("enabled", "true", "true")

(***************************************************************************)
(* Claims about the animation component                                    *)
(***************************************************************************)

\* the component has a parameter `name`, and it is of type `type`
HasParameter(name, type) ==
    /\ name \in DOMAIN anim.parameters
    /\ heap[anim.parameters[name]].type = type

\* the type each typed setter requires
SetterType(op) ==
    CASE op = "setFloat" -> ANIM_PARAMETER_FLOAT
      [] op = "setInteger" -> ANIM_PARAMETER_INTEGER
      [] op = "setBoolean" -> ANIM_PARAMETER_BOOLEAN
      [] OTHER -> ANIM_PARAMETER_TRIGGER

ParameterSetters == {"setFloat", "setInteger", "setBoolean", "setTrigger", "resetTrigger"}

\* C4 (as stated): after setTrigger(name, singleFrame = true) on an existing
\* trigger parameter, one update(dt) leaves that parameter false and the
\* consumed-trigger set empty; and an update that follows an update, with
\* nothing set in between, resets nothing.
C4_SingleFrameTriggerCleared ==
    [][ /\ ( /\ call.op = "setTrigger"
             /\ call.singleFrame
             /\ HasParameter(call.name, ANIM_PARAMETER_TRIGGER)
             /\ call'.op = "update" ) =>
               /\ heap'[anim'.parameters[call.name]].value = "false"
               /\ anim'.consumedTriggers = <<>>
        /\ ( /\ call.op = "update"
             /\ call'.op = "update"
             /\ anim.consumedTriggers = <<>> ) =>
               \A k \in DOMAIN trace' :
                   trace'[k][1] = "reset" =>
                       \E i \in DOMAIN anim.layers : trace'[k][2] \in anim.layers[i].triggers
      ]_vars

\* C5 (as stated): in one update(dt) every layer is advanced, with dt * speed,
\* before any consumed trigger is reset, and the consumed-trigger set is reset
\* and cleared exactly once, after the last layer's update.
C5_LayersThenResetThenClear ==
    call.op = "update" =>
        LET n == Len(anim.layers)
        IN  /\ Len(trace) > n
            /\ \A i \in 1..n : trace[i] = <<"layer", i, call.dt * anim.speed>>
            /\ \A k \in (n + 1)..(Len(trace) - 1) : trace[k][1] = "reset"
            /\ trace[Len(trace)] = <<"clear">>

\* C6 (as stated): a typed setter called with the name of a parameter that does
\* not exist, or whose declared type is not the one the setter requires, does not
\* raise and leaves the whole component state unchanged: no parameter value and
\* not the consumed-trigger set.
C6_RejectedSetIsNoOp ==
    [][ ( /\ call'.op \in ParameterSetters
          /\ ~HasParameter(call'.name, SetterType(call'.op)) ) =>
            /\ ~threw'
            /\ anim' = anim
            /\ heap' = heap ]_vars

\* C7 (as stated): update(dt) returns without raising in every reachable state.
C7_UpdateNeverRaises == call.op = "update" => ~threw

\* C8: assigning null to stateGraphAsset, after a loaded state graph asset was
\* assigned and whatever was assigned or set since, leaves no layer, no
\* parameter, no manifest entry, no state graph, and playing false.
C8_AssetThenNullIsEmpty ==
    (call.op = "stateGraphAsset" /\ call.value = "null") =>
        /\ anim.layers = <<>>
        /\ DOMAIN anim.parameters = {}
        /\ DOMAIN anim.animationAssets = {}
        /\ anim.stateGraph = "null"
        /\ anim.stateGraphAsset = "null"
        /\ anim.playing = FALSE

\* null was assigned after the loaded asset "1" had been assigned (its 'change'
\* subscription is still there) and after the other asset had been loaded too
C8_Witness ==
    /\ call.op = "stateGraphAsset"
    /\ call.value = "null"
    /\ assets["1"].change = 1
    /\ assets["2"].loaded
    /\ anim.layers = <<>>
    /\ anim.consumedTriggers = <<>>

\* the manifest keys of the non-control states of the layers of graph g
GraphStateKeys(g) ==
    UNION { { StateKey(GraphLayers(g)[i].name, GraphLayers(g)[i].states[j]) :
                j \in { j \in DOMAIN GraphLayers(g)[i].states :
                          GraphLayers(g)[i].states[j] \notin {"START", "END", "ANY"} } } :
            i \in DOMAIN GraphLayers(g) }

\* C9 (as stated): after loadStateGraph(G), in any state it is called in, the
\* manifest has exactly one entry for each non-control state of each layer of G,
\* none for a control state (and so none for any other key), and an entry that
\* had no asset assigned holds asset: null.
C9_ManifestIsGraphStates ==
    [][ call'.op = "loadStateGraph" =>
          /\ DOMAIN anim'.animationAssets = GraphStateKeys(call'.graph)
          /\ \A k \in GraphStateKeys(call'.graph) :
                (k \notin DOMAIN anim.animationAssets) => anim'.animationAssets[k] = "null"
      ]_vars

\* C10 (as stated): after loadStateGraph(G) the parameter map holds exactly the
\* parameters G declares, each with its declared type and default value whatever
\* was set before, and the layer list holds exactly one newly built layer per
\* layer of G, in G's order.
C10_ParametersAndLayersOfGraph ==
    call.op = "loadStateGraph" =>
        /\ DOMAIN anim.parameters = DOMAIN GraphDeclared(call.graph)
        /\ \A n \in DOMAIN anim.parameters :
              heap[anim.parameters[n]] = GraphDeclared(call.graph)[n]
        /\ Len(anim.layers) = Len(GraphLayers(call.graph))
        /\ \A i \in DOMAIN anim.layers :
              /\ anim.layers[i].name = GraphLayers(call.graph)[i].name
              /\ anim.layers[i].states = GraphLayers(call.graph)[i].states
              /\ anim.layers[i].parameters = anim.parameters

\* C11: when a state graph asset fires 'change', after the handler returns every
\* animation-asset assignment held before is still in the manifest with the same
\* asset id, each layer index present before and after has the mask it had
\* before, and every layer is rebound after the last mask was re-applied.
C11_ChangeKeepsAssetsAndMasks ==
    [][ call'.op = "change" =>
          LET n == Len(anim'.layers)
              last == Len(trace')
          IN  /\ \A k \in DOMAIN anim.animationAssets :
                    /\ k \in DOMAIN anim'.animationAssets
                    /\ anim'.animationAssets[k] = anim.animationAssets[k]
              /\ \A i \in DOMAIN anim.layers \cap DOMAIN anim'.layers :
                    anim'.layers[i].mask = anim.layers[i].mask
              /\ last >= 2 * n + 1
              /\ \A i \in 1..n :
                    /\ trace'[last - n + i] = <<"rebind", i>>
                    /\ trace'[last - 2 * n - 1 + i] = <<"mask", i, anim'.layers[i].mask>>
      ]_vars

\* a 'change' to the data of the one-layer graph was handled while the manifest
\* held an assigned asset and the first layer had the mask "arm", which the layer
\* of the new graph does not declare
C11_Witness ==
    /\ call.op = "change"
    /\ call.graph = "g1"
    /\ Len(anim.layers) = 1
    /\ anim.layers[1].mask = "arm"
    /\ "Base:Idle" \in DOMAIN anim.animationAssets
    /\ anim.animationAssets["Base:Idle"] = "7"
    /\ anim.layers[1].tracks = {"Idle"}

(***************************************************************************)
(* Claims about the model component                                        *)
(***************************************************************************)

\* the component that is not c
Other(c) == IF c = "c1" THEN "c2" ELSE "c1"

\* C12: assigning to `model` a model that another ModelComponent has installed is
\* rejected: a diagnostic is reported, the assigning component keeps its
\* previous model (in its layers, not destroyed) and the model stays with the
\* other component; and no model is the active model of two components.
C12_SharedModelRejected ==
    [][ /\ ( /\ call'.op = "model"
             /\ call'.value # "null"
             /\ scene.comps[Other(call'.comp)].model = call'.value ) =>
               /\ scene'.steps = << <<"Debug.error", call'.comp, call'.value>> >>
               /\ scene'.comps = scene.comps
               /\ scene'.models = scene.models
        /\ \A c \in ModelComponents :
               scene'.comps[c].model # "null" =>
                   scene'.comps[Other(c)].model # scene'.comps[c].model
      ]_vars

\* c2, which holds a clone of its asset in the world layer, was assigned the
\* model c1 holds and still holds its clone
C12_Witness ==
    /\ call = [op |-> "model", comp |-> "c2", value |-> "u1"]
    /\ scene.steps = << <<"Debug.error", "c2", "u1">> >>
    /\ scene.comps["c1"].model = "u1"
    /\ scene.comps["c2"].model \in {NewModels[i] : i \in DOMAIN NewModels}
    /\ scene.comps["c2"].clonedModel
    /\ scene.models[scene.comps["c2"].model].layers = {"world"}
    /\ ~scene.models[scene.comps["c2"].model].destroyed

\* the Model objects clone() and `new Model()` create
Created == {NewModels[i] : i \in DOMAIN NewModels}

\* C13: whenever the load of a model asset is applied (on bind or by a load
\* event) the component installs a fresh clone of asset.resource: the clone is
\* an object no component held, a component's active model is never the
\* resource of an asset, and two components bound to the same asset hold
\* distinct models.
C13_LoadInstallsFreshClone ==
    [][ /\ \A k \in DOMAIN scene'.steps :
               scene'.steps[k][1] = "clone" =>
                   /\ scene'.steps[k][3] \in Created
                   /\ \A c \in ModelComponents : scene.comps[c].model # scene'.steps[k][3]
                   /\ \E c \in ModelComponents :
                          /\ scene'.comps[c].model = scene'.steps[k][3]
                          /\ scene'.comps[c].clonedModel
        /\ \A c \in ModelComponents : \A id \in ModelAssets :
               scene'.comps[c].model # ResourceOf(id)
        /\ \A c \in ModelComponents :
               ( /\ scene'.comps[c].asset # "null"
                 /\ scene'.comps[c].asset = scene'.comps[Other(c)].asset
                 /\ scene'.comps[c].model # "null" ) =>
                   scene'.comps[c].model # scene'.comps[Other(c)].model
      ]_vars

\* the load event of the asset both components are bound to has given each of
\* them a clone of its own
C13_Witness ==
    /\ call = [op |-> "asset:load", asset |-> "1"]
    /\ scene.comps["c1"].asset = "1"
    /\ scene.comps["c2"].asset = "1"
    /\ scene.comps["c1"].model \in Created
    /\ scene.comps["c2"].model \in Created
    /\ scene.comps["c1"].model # scene.comps["c2"].model
    /\ Len(scene.steps) >= 2

\* C14 (as stated): in every assignment to `asset` that changes the asset, the
\* component's listeners are taken off the previous asset (load, unload, change,
\* remove and the registry's 'add:<id>') before any listener is put on the new
\* one, so that afterwards the component listens to no asset but the new one and
\* no event is delivered to it for both.
C14_UnbindBeforeBind ==
    [][ ( /\ call'.op = "asset"
          /\ scene.comps[call'.comp].asset # call'.value ) =>
            LET c == call'.comp
                prev == scene.comps[c].asset
                steps == scene'.steps
            IN  /\ prev # "null" =>
                       /\ \E i \in DOMAIN steps : steps[i] = <<"off:add", c, prev>>
                       /\ \E i \in DOMAIN steps : steps[i] = <<"off", c, prev>>
                /\ \A i, j \in DOMAIN steps :
                       ( /\ steps[i][1] \in {"off", "off:add"}
                         /\ steps[i][3] = prev
                         /\ steps[j][1] \in {"on", "on:add"} ) => i < j
                /\ \A id \in ModelAssets \ {call'.value} :
                       /\ c \notin scene'.assets[id].bound
                       /\ c \notin scene'.assets[id].added
      ]_vars

\* the step assigns to `asset` of a component an asset of the registry other
\* than the one it holds, loaded or not
AssignsAsset(loaded) ==
    /\ call'.op = "asset"
    /\ call'.value # "null"
    /\ scene.comps[call'.comp].asset # call'.value
    /\ scene.assets[call'.value].present
    /\ scene.assets[call'.value].loaded = loaded

\* the operation requested the load of the asset from the registry
Requested(steps, id) == \E i \in DOMAIN steps : steps[i] = <<"assets.load", id>>

Listed(ls) == {ls[i] : i \in DOMAIN ls} \cap SceneLayers

\* the layers from which the operation removed the mesh instances of model m
RemovedFrom(steps, m) ==
    { l \in SceneLayers : \E i \in DOMAIN steps : steps[i] = <<"removeMeshInstances", l, m>> }

\* C16: after an unload or remove event of the component's current model asset
\* the model is null and its mesh instances are in none of the component's
\* layers, while the asset id, the mapping, the layer list, the batch group id
\* and the shadow flags are unchanged; a later load event of that asset installs
\* a new clone that takes the shadow flags, is added to the listed layers when
\* the component is enabled, and gets the materials of the mapping.
C16_UnloadKeepsProperties ==
    [][ \A c \in ModelComponents :
          /\ ( /\ call'.op \in {"asset:unload", "asset:remove"}
               /\ scene.comps[c].asset = call'.asset ) =>
                 /\ scene'.comps[c] = [scene.comps[c] EXCEPT !.model = "null",
                                                            !.clonedModel = FALSE]
                 /\ scene.comps[c].model # "null" =>
                        /\ scene.models[scene.comps[c].model].layers
                              \subseteq RemovedFrom(scene'.steps, scene.comps[c].model)
                        /\ Listed(scene.comps[c].layers)
                              \subseteq RemovedFrom(scene'.steps, scene.comps[c].model)
          /\ ( /\ call'.op = "asset:load"
               /\ scene.comps[c].asset = call'.asset
               /\ c \in scene.assets[call'.asset].bound ) =>
                 LET new == scene'.comps[c].model
                     old == scene.comps[c]
                     mapping == old.mapping
                 IN  /\ new \in Created
                     /\ new # old.model
                     /\ scene'.comps[c] = [old EXCEPT
                            !.model = new,
                            !.clonedModel = TRUE,
                            !.materialEvents = scene'.comps[c].materialEvents]
                     /\ scene'.models[new].castShadow = old.castShadows
                     /\ scene'.models[new].receiveShadow = old.receiveShadows
                     /\ scene'.models[new].layers =
                            IF old.enabled /\ old.entityEnabled
                            THEN Listed(old.layers) ELSE {}
                     /\ \A i \in DOMAIN mapping :
                            /\ ~Truthy(mapping[i]) =>
                                   scene'.models[new].material[i] = DefaultMaterial
                            /\ ( /\ mapping[i] \in MaterialAssets
                                 /\ scene.materialLoaded[mapping[i]] ) =>
                                   scene'.models[new].material[i] = MaterialOf(mapping[i])
      ]_vars

\* the asset of an enabled component that had a model in the "ui" layer, and a
\* mapping, was unloaded
C16_Witness ==
    /\ call = [op |-> "asset:unload", asset |-> "1"]
    /\ scene.comps["c1"].asset = "1"
    /\ scene.comps["c1"].enabled
    /\ scene.comps["c1"].model = "null"
    /\ scene.comps["c1"].layers = <<"ui", "gone">>
    /\ 1 \in DOMAIN scene.comps["c1"].mapping
    /\ \E i \in DOMAIN scene.steps :
          /\ scene.steps[i][1] = "removeMeshInstances"
          /\ scene.steps[i][2] = "ui"

\* the material asset the claimed order resolves for mesh instance i alone:
\* the entry i of the explicit mapping, else the entry i of the mapping embedded
\* in the model asset `id`, else none ("null": the default material)
ResolvedAsset(value, id, i) ==
    IF i \in DOMAIN value
    THEN IF Truthy(value[i]) THEN value[i] ELSE "null"
    ELSE IF /\ id # "null"
            /\ AssetMapping(id).defined
            /\ i \in DOMAIN AssetMapping(id).entries
    THEN LET e == AssetMapping(id).entries[i]
         IN  IF e.material # "undefined" THEN e.material
             ELSE getByUrl(getAbsoluteUrl(id, e.path))
    ELSE "null"

\* C17 (as stated): when a mapping is applied to an asset-type model, mesh
\* instance i gets the material that the explicit entry for i names, else the one
\* the model asset's embedded entry for i names, else the system default
\* material, whatever the entries of the other indices (checked for the material
\* assets that are in the registry and loaded).
C17_MaterialResolvedPerIndex ==
    [][ ( /\ call'.op = "mapping"
          /\ scene.comps[call'.comp].type = "asset"
          /\ scene.comps[call'.comp].model # "null" ) =>
            LET c == call'.comp
                id == IF scene.comps[c].asset # "null"
                         /\ scene.assets[scene.comps[c].asset].present
                      THEN scene.comps[c].asset ELSE "null"
                material == scene'.models[scene.comps[c].model].material
            IN  \A i \in MeshIndices :
                  LET a == ResolvedAsset(call'.value, id, i)
                  IN  /\ a = "null" => material[i] = DefaultMaterial
                      /\ (a \in MaterialAssets /\ scene.materialLoaded[a]) =>
                             material[i] = MaterialOf(a)
      ]_vars

\* C18: after a new layer list V is assigned to an enabled component that has a
\* model, the mesh instances are in exactly the existing layers V lists, so in
\* no layer of the previous list that V does not list; and within the
\* assignment every removal from a layer precedes every addition to a layer.
C18_LayersReplaced ==
    [][ ( /\ call'.op = "layers"
          /\ ~call'.own
          /\ scene.comps[call'.comp].enabled
          /\ scene.comps[call'.comp].entityEnabled
          /\ scene.comps[call'.comp].model # "null" ) =>
            LET c == call'.comp
                m == scene.comps[c].model
                steps == scene'.steps
            IN  /\ scene'.comps[c].layers = call'.value
                /\ scene'.models[m].layers = Listed(call'.value)
                /\ Listed(scene.comps[c].layers) \ Listed(call'.value)
                      \subseteq RemovedFrom(steps, m)
                /\ \A i, j \in DOMAIN steps :
                       ( /\ steps[i][1] = "removeMeshInstances"
                         /\ steps[j][1] = "addMeshInstances" ) => i < j
      ]_vars

\* an enabled component whose cloned model was in the "ui" and "world" layers was
\* assigned the list ("ui", "gone"): the model is in "ui" only
C18_Witness ==
    /\ call = [op |-> "layers", comp |-> "c1", value |-> <<"ui", "gone">>, own |-> FALSE]
    /\ scene.comps["c1"].enabled
    /\ scene.comps["c1"].model \in Created
    /\ scene.models[scene.comps["c1"].model].layers = {"ui"}
    /\ Len(scene.steps) = 3
    /\ scene.steps[2] = <<"removeMeshInstances", "world", scene.comps["c1"].model>>
    /\ scene.steps[3] = <<"addMeshInstances", "ui", scene.comps["c1"].model>>

(***************************************************************************)
(* Claims about the layout calculator                                      *)
(***************************************************************************)

\* the call that was made returned a layout
Returned == layout.op = "calculateLayout" /\ layout.result.raised = "none"

PrimaryAxis == AXIS_MAPPINGS(layout.options.orientation)

\* the elements that were laid out, in the order of the call
LaidOut ==
    [p \in 1..Len(layout.result.included) |->
        layout.result.elements[layout.result.included[p]]]

IdealSizes == getElementSizeProperties(LaidOut)

RECURSIVE SumOver(_, _, _)
SumOver(size, line, n) ==
    IF n = 0 THEN R(0) ELSE Add(SumOver(size, line, n - 1), size[line[n]])

\* the ideal sizes of the first n elements of a line and the spacing between them
RunningTotal(line, n) ==
    Add(SumOver([p \in DOMAIN IdealSizes |-> IdealSizes[p][PrimaryAxis.size]], line, n),
        Mul(R(n - 1), layout.options.spacing[PrimaryAxis.axis]))

RECURSIVE Flatten(_)
Flatten(lines) == IF lines = <<>> THEN <<>> ELSE Head(lines) \o Flatten(Tail(lines))

WrapsBeforeOverrun ==
    /\ Returned
    /\ layout.options.wrap
    /\ layout.options[PrimaryAxis.fitting] \in {FITTING_NONE, FITTING_STRETCH, FITTING_BOTH}

SingleLineWithoutFitting ==
    /\ Returned
    /\ ~layout.options.wrap
    /\ layout.options[PrimaryAxis.fitting] = FITTING_NONE
    /\ Len(LaidOut) >= 1

\* the extent of the content bounds on the primary axis
PrimaryExtent ==
    IF layout.options.orientation = ORIENTATION_HORIZONTAL
    THEN layout.result.bounds.z ELSE layout.result.bounds.w

\* the sizes the call wrote to the elements it laid out, on the primary axis
CalculatedSizes == [p \in DOMAIN LaidOut |-> LaidOut[p][PrimaryAxis.calculatedSize]]

StretchedLine ==
    /\ Returned
    /\ ~layout.options.wrap
    /\ layout.options[PrimaryAxis.fitting] = FITTING_STRETCH
    /\ Len(LaidOut) >= 1
    /\ Lt(RunningTotal([p \in 1..Len(LaidOut) |-> p], Len(LaidOut)),
          layout.result.availableSpace[PrimaryAxis.axis])

\* the calculated sizes of the line and the spacing between them
CalculatedTotal ==
    Add(SumOver(CalculatedSizes, [p \in 1..Len(LaidOut) |-> p], Len(LaidOut)),
        Mul(R(Len(LaidOut) - 1), layout.options.spacing[PrimaryAxis.axis]))

AtMax(p) == CalculatedSizes[p] = IdealSizes[p][PrimaryAxis.maxSize]

\* the elements that have a share of the undershoot: all of them when no
\* fitting proportion is set, those with a proportion above 0 otherwise
HasShare(p) ==
    getNormalizedValues(IdealSizes, PrimaryAxis.fittingProportion)[p] # R(0)

\* C21: under FITTING_STRETCH on an under-filled line no element ends above
\* its max size, and what an element cannot absorb of its share because of
\* its max goes to the other elements that have a share: the line fills the
\* available space unless every element that has a share is at its max.
C21_StretchRedistributes ==
    StretchedLine =>
        /\ \A p \in DOMAIN LaidOut :
               Le(CalculatedSizes[p], IdealSizes[p][PrimaryAxis.maxSize])
        /\ \/ CalculatedTotal = layout.result.availableSpace[PrimaryAxis.axis]
           \/ \A p \in DOMAIN LaidOut : HasShare(p) => AtMax(p)

Unrecognized ==
    \/ layout.options.orientation \notin Orientations
    \/ layout.options.widthFitting \notin Fittings
    \/ layout.options.heightFitting \notin Fittings

Raised == layout.op = "calculateLayout" /\ layout.result.raised # "none"

\* C22: calculateLayout raises whenever the orientation is not a recognized
\* orientation or the fitting mode of either axis is not one of NONE, STRETCH,
\* SHRINK and BOTH, for every element list, the empty one included.
C22_UnrecognizedRaises ==
    (layout.op = "calculateLayout" /\ Unrecognized) => Raised

\* The part of C22 about the fitting modes, and about orientations that are no
\* property of Object.prototype.
C22_UnrecognizedRaisesUnlessInherited ==
    (layout.op = "calculateLayout" /\ Unrecognized
        /\ layout.options.orientation \notin DOMAIN ObjectPrototype) => Raised

\* C23: reading data on a component whose entity has no record in the store
\* returns null, does not raise, and leaves the store without the record.
C23_DataOfDetachedIsNull ==
    [][ (call'.op = "data" /\ DataIsNull) =>
            /\ call'.null
            /\ ~call'.raised
            /\ store' = store ]_vars

\* data was read with no record stored, after a record had been stored, written
\* to and deleted again
C23_Witness ==
    /\ call.op = "data"
    /\ call.null
    /\ DataIsNull
    /\ lastHook = "onDisable"

\* C24: when a state graph asset finishes loading that is not the asset
\* currently assigned (it was assigned while not loaded, and another asset or
\* null was assigned since), its load event does not change the component: the
\* state graph, the layers, the parameters and the manifest stay as they were.
C24_StaleLoadChangesNothing ==
    [][ (call'.op = "load" /\ anim.stateGraphAsset # call'.asset) =>
            /\ anim'.stateGraph = anim.stateGraph
            /\ anim'.layers = anim.layers
            /\ anim'.parameters = anim.parameters
            /\ anim'.animationAssets = anim.animationAssets ]_vars

ModelAssetEvents == {"asset:load", "asset:unload", "asset:change", "asset:remove"}

\* C25: a load, unload, change or remove event of a model asset that is not
\* the current asset of a component (the asset was reassigned, the type was
\* switched to a primitive, or the asset had left the registry when the asset
\* was reassigned) does not change the model of that component.
C25_StaleAssetEventKeepsModel ==
    [][ call'.op \in ModelAssetEvents =>
            \A c \in ModelComponents :
                scene.comps[c].asset # call'.asset =>
                    scene'.comps[c].model = scene.comps[c].model ]_vars

ValueSetters == {"setFloat", "setInteger", "setBoolean", "setTrigger"}

\* the last operation was a typed setter that found its parameter and wrote it
Written ==
    /\ call.op \in ValueSetters
    /\ HasParameter(call.name, SetterType(call.op))
    /\ call.op = "setInteger" => (IsNumber(call.value) /\ IsInteger(call.value))

\* C26: the parameter a typed setter has written is the parameter every
\* layer's controller reads under that name: the controllers hold the map the
\* setters write to, after any sequence of loadStateGraph, addLayer, reset and
\* setters.
C26_SettersWriteWhatLayersRead ==
    Written =>
        \A i \in DOMAIN anim.layers :
            /\ call.name \in DOMAIN anim.layers[i].parameters
            /\ anim.layers[i].parameters[call.name] = anim.parameters[call.name]

\* C27: reset() leaves every parameter with the type and the value the state
\* graph declared, whatever the setters and earlier resets did before.
C27_ResetRestoresDeclared ==
    (call.op = "reset" /\ ~threw) =>
        /\ DOMAIN anim.parameters = DOMAIN GraphDeclared(anim.stateGraph)
        /\ \A n \in DOMAIN anim.parameters :
              heap[anim.parameters[n]] = GraphDeclared(anim.stateGraph)[n]

\* the layer names callers can ask for: those of the graphs and of addLayer
AllLayerNames ==
    LayerNames \cup
        UNION { {GraphLayers(g)[i].name : i \in DOMAIN GraphLayers(g)} : g \in Graphs }

HasLayerNamed(a, name) == \E i \in DOMAIN a.layers : a.layers[i].name = name

\* C28: findAnimationLayer(name) returns a layer of the current layer list
\* that has that name, or null when the list has none; and addLayer(name) adds
\* a layer exactly when no current layer has that name.
C28_LayerFoundByName ==
    [][ /\ \A name \in AllLayerNames :
               LET k == findAnimationLayer(anim, name)
               IN  IF HasLayerNamed(anim, name)
                   THEN k # 0 /\ anim.layers[k].name = name
                   ELSE k = 0
        /\ call'.op = "addLayer" =>
               IF HasLayerNamed(anim, call'.name)
               THEN anim'.layers = anim.layers
               ELSE /\ Len(anim'.layers) = Len(anim.layers) + 1
                    /\ anim'.layers[Len(anim'.layers)].name = call'.name
      ]_vars

\* C29: in every reachable state the component is subscribed to 'change' of a
\* state graph asset exactly once if stateGraphAsset is the id of that asset,
\* and not at all otherwise.
C29_SubscribedToCurrentAssetOnly ==
    \A id \in GraphAssets :
        assets[id].change = IF anim.stateGraphAsset = id THEN 1 ELSE 0

\* C30: in every reachable state the mesh instances of a component's model are
\* in the mesh-instance list or the shadow-caster list of a layer only if the
\* component and its entity are both enabled.
C30_InLayersOnlyIfEnabled ==
    \A c \in ModelComponents :
        LET m == scene.comps[c].model
        IN  (m # "null" /\ (scene.models[m].layers # {} \/ scene.models[m].casters # {}))
                => (scene.comps[c].enabled /\ scene.comps[c].entityEnabled)

\* the groups the batcher should hold the entity of component c in
ExpectedGroups(w, c) ==
    IF w.comps[c].enabled /\ w.comps[c].entityEnabled /\ w.comps[c].batchGroupId >= 0
    THEN {w.comps[c].batchGroupId}
    ELSE {}

\* C31: on an enabled entity, the entity is in batch group g exactly when the
\* component is enabled and batchGroupId = g >= 0; no batcher.insert is issued
\* for a group the entity is in already and no batcher.remove for a group it is
\* not in.
C31_BatchedWhenEnabled ==
    [][ \A c \in ModelComponents :
          /\ scene'.batch[c] = ExpectedGroups(scene', c)
          /\ \A k \in DOMAIN scene'.steps :
                LET step == scene'.steps[k]
                IN  /\ (step[1] = "batcher.insert" /\ step[3] = c) =>
                            step[2] \notin scene.batch[c]
                    /\ (step[1] = "batcher.remove" /\ step[3] = c) =>
                            step[2] \in scene.batch[c] ]_vars

\* C32: the component holds at most one subscription of its handlers on its
\* current material asset and none on any other material asset, so that one
\* event of an asset invokes each handler at most once.
C32_OneMaterialSubscription ==
    \A c \in ModelComponents : \A id \in MaterialAssets :
        /\ scene.materialBound[id][c] <= 1
        /\ id # scene.comps[c].materialAsset => scene.materialBound[id][c] = 0

\* the model asset of component c whose embedded mapping the setter reads
MappedModelAsset(w, c) ==
    IF w.comps[c].asset # "null" /\ w.assets[w.comps[c].asset].present
    THEN w.comps[c].asset
    ELSE "null"

\* C33: when the mapping entry of a mesh instance (explicit, else embedded in
\* the model asset) names a material asset the registry does not have, the mesh
\* instance has the system default material after the mapping is applied; and
\* when the entry names an asset that is not loaded yet, the mesh instance has
\* the asset's material when the load event arrives next.
C33_MissingMaterialIsDefault ==
    [][ /\ ( /\ call'.op = "mapping"
             /\ scene.comps[call'.comp].type = "asset"
             /\ scene.comps[call'.comp].model # "null" ) =>
               \A i \in MeshIndices :
                   LET c == call'.comp
                       a == ResolvedAsset(call'.value, MappedModelAsset(scene, c), i)
                   IN  (a # "null" /\ getMaterialAsset(a) = "undefined") =>
                           scene'.models[scene.comps[c].model].material[i] = DefaultMaterial
        /\ ( /\ call.op = "mapping"
             /\ call'.op = "material:load"
             /\ scene.comps[call.comp].type = "asset"
             /\ scene.comps[call.comp].model # "null" ) =>
               \A i \in MeshIndices :
                   LET c == call.comp
                   IN  ResolvedAsset(call.value, MappedModelAsset(scene, c), i)
                               = call'.asset =>
                           scene'.models[scene.comps[c].model].material[i]
                               = MaterialOf(call'.asset)
      ]_vars

\* the callbacks waiting for the load of the asset id
WaitingFor(a, id) == { i \in DOMAIN a.onceLoad : a.onceLoad[i][1] = id }

\* C34: when an animation asset finishes loading and no layer of the component
\* has the name its callback was subscribed for (the state graph was removed,
\* or replaced by one without that layer), the handler raises nothing and
\* assigns no animation: the layers are what they were.
C34_LateLoadIgnored ==
    [][ ( /\ call'.op = "animation:load"
          /\ \A i \in WaitingFor(anim, call'.asset) :
                 ~HasLayerNamed(anim, anim.onceLoad[i][2]) ) =>
            ( ~threw' /\ anim'.layers = anim.layers )
      ]_vars


WrapsAfterOverrun ==
    /\ Returned
    /\ layout.options.wrap
    /\ layout.options[PrimaryAxis.fitting] = FITTING_SHRINK

SecondaryAxis == AXIS_MAPPINGS(OPPOSITE_ORIENTATION(layout.options.orientation))

\* the size properties of the element p that was laid out, on one axis
WithinLimits(p, axis) ==
    /\ Le(IdealSizes[p][axis.minSize], LaidOut[p][axis.calculatedSize])
    /\ Le(LaidOut[p][axis.calculatedSize], IdealSizes[p][axis.maxSize])

\* C36: for every element that is laid out and on both axes, the calculated
\* size is at least the sanitized min size max(min, 0) and at most the
\* sanitized max size max(max, min), under every fitting mode of both axes,
\* wrapped or not, whatever the number of lines and the available space.
C36_SizeWithinLimits ==
    Returned =>
        \A p \in DOMAIN LaidOut :
            WithinLimits(p, PrimaryAxis) /\ WithinLimits(p, SecondaryAxis)

\* several lines, fitted: one element ends at its max above its ideal size, and
\* one element has a max below its min, so that its sanitized max is its min
C36_Witness ==
    /\ Returned
    /\ Len(layout.result.lines) >= 2
    /\ \E p \in DOMAIN LaidOut : \E axis \in {PrimaryAxis, SecondaryAxis} :
           /\ LaidOut[p][axis.calculatedSize] = IdealSizes[p][axis.maxSize]
           /\ Lt(IdealSizes[p][axis.size], IdealSizes[p][axis.maxSize])
    /\ \E p \in DOMAIN LaidOut :
           Lt(Num(getProperty(LaidOut[p], "maxWidth")), IdealSizes[p].minWidth)


\* C37: after calculateLayout no element is larger on the secondary axis than
\* the resolved secondary size of its line, the size by which the line cursor
\* is advanced and from which the bounds are computed.
C37_WithinLineSize ==
    Returned =>
        \A l \in DOMAIN layout.result.lines : \A e \in DOMAIN layout.result.lines[l] :
            Le(LaidOut[layout.result.lines[l][e]][SecondaryAxis.calculatedSize],
               layout.result.lineSizes[l][SecondaryAxis.size])


Increased(p, axis) == Gt(LaidOut[p][axis.calculatedSize], IdealSizes[p][axis.size])
Decreased(p, axis) == Lt(LaidOut[p][axis.calculatedSize], IdealSizes[p][axis.size])

\* the elements P were fitted on the axis under the mode, with the given total
\* to compare with the given available space, only as the mode allows
FittedAsAllowed(P, axis, mode, total, available) ==
    /\ \A p \in P : Increased(p, axis) =>
           mode \in {FITTING_STRETCH, FITTING_BOTH} /\ Lt(total, available)
    /\ \A p \in P : Decreased(p, axis) =>
           mode \in {FITTING_SHRINK, FITTING_BOTH} /\ Gt(total, available)
    /\ (mode = FITTING_NONE \/ total = available) =>
           \A p \in P : LaidOut[p][axis.calculatedSize] = IdealSizes[p][axis.size]

ElementsOfLine(l) == { layout.result.lines[l][e] : e \in DOMAIN layout.result.lines[l] }

\* the largest ideal size on the secondary axis among the elements of a line
LargestIdeal(l) ==
    LET p == CHOOSE p \in ElementsOfLine(l) : \A q \in ElementsOfLine(l) :
                 Ge(IdealSizes[p][SecondaryAxis.size], IdealSizes[q][SecondaryAxis.size])
    IN  IdealSizes[p][SecondaryAxis.size]

\* the ideal total of the lines on the secondary axis: the largest ideal size
\* of each line and the spacing between the lines
RECURSIVE SecondaryTotal(_)
SecondaryTotal(n) ==
    IF n = 0 THEN R(0)
    ELSE Add(SecondaryTotal(n - 1),
             Add(LargestIdeal(n),
                 IF n = 1 THEN R(0) ELSE layout.options.spacing[SecondaryAxis.axis]))

\* the primary axis: each line against the available space
PrimaryFittedAsAllowed ==
    \A l \in DOMAIN layout.result.lines :
        FittedAsAllowed(ElementsOfLine(l), PrimaryAxis, layout.options[PrimaryAxis.fitting],
            RunningTotal(layout.result.lines[l], Len(layout.result.lines[l])),
            layout.result.availableSpace[PrimaryAxis.axis])

\* the size an element is compared with on the secondary axis: the available
\* space when there is one line, the resolved size of its line otherwise
AvailableSize(l) ==
    IF Len(layout.result.lines) = 1 THEN layout.result.availableSpace[SecondaryAxis.axis]
    ELSE layout.result.lineSizes[l][SecondaryAxis.size]

\* C38 (as stated): on each axis the sizes are increased by fitting only when
\* the mode is STRETCH or BOTH and the ideal total is smaller than the
\* available space, decreased only when the mode is SHRINK or BOTH and the
\* ideal total is larger than the available space, and equal to the ideal
\* sizes when the mode is NONE or the ideal total equals the available space.
C38_FittedOnlyWhenApplicable ==
    (Returned /\ Len(LaidOut) > 0) =>
        /\ PrimaryFittedAsAllowed
        /\ FittedAsAllowed(DOMAIN LaidOut, SecondaryAxis,
               layout.options[SecondaryAxis.fitting],
               SecondaryTotal(Len(layout.result.lines)),
               layout.result.availableSpace[SecondaryAxis.axis])

\* C38 (amended): on the primary axis the sizes of a line are increased only
\* when the mode is STRETCH or BOTH and the ideal total of the line is smaller
\* than the available space, decreased only when the mode is SHRINK or BOTH
\* and it is larger, and equal to the ideal sizes under NONE or when the two
\* are equal; on the secondary axis the same holds of each element with its
\* own ideal size in place of the total and the size it is compared with (the
\* available space for a single line, the resolved size of its line otherwise)
\* in place of the available space.
C38_FittedPerLineAndPerElement ==
    (Returned /\ Len(LaidOut) > 0) =>
        /\ PrimaryFittedAsAllowed
        /\ \A l \in DOMAIN layout.result.lines : \A p \in ElementsOfLine(l) :
               FittedAsAllowed({p}, SecondaryAxis, layout.options[SecondaryAxis.fitting],
                   IdealSizes[p][SecondaryAxis.size], AvailableSize(l))

\* a line is shrunk on the primary axis while one of its elements, smaller
\* than the largest, is stretched on the secondary axis
C38_Witness ==
    /\ Returned
    /\ \E p \in DOMAIN LaidOut : Decreased(p, PrimaryAxis)
    /\ \E p \in DOMAIN LaidOut : Increased(p, SecondaryAxis)


\* C39: when calculateLayout raises for an orientation or a fitting mode it
\* does not recognize, the elements are as they were before the call: anchor,
\* calculated width and height, and position.
C39_RaiseLeavesElements ==
    Raised => layout.result.elements = layout.elements


\* position - size * pivot and position + size * (1 - pivot) of an element
MinExtent(p, axis) ==
    Sub(LaidOut[p].position[axis.axis],
        Mul(LaidOut[p][axis.calculatedSize], LaidOut[p].pivot[axis.axis]))

MaxExtent(p, axis) ==
    Add(LaidOut[p].position[axis.axis],
        Mul(LaidOut[p][axis.calculatedSize], Sub(R(1), LaidOut[p].pivot[axis.axis])))

\* where a line starts on the primary axis: what the alignment leaves before
\* the line, and the padding
LineStartOffset(l) ==
    Add(Mul(Sub(layout.result.availableSpace[PrimaryAxis.axis],
                layout.result.lineSizes[l][PrimaryAxis.size]),
            layout.options.alignment[PrimaryAxis.axis]),
        layout.options.padding[PrimaryAxis.axis])

\* where the line of an element starts on the secondary axis: the minimum
\* extent of the element without its alignment within the line
SecondaryStart(l, p) ==
    Sub(MinExtent(p, SecondaryAxis),
        Mul(Sub(layout.result.lineSizes[l][SecondaryAxis.size],
                LaidOut[p][SecondaryAxis.calculatedSize]),
            layout.options.alignment[SecondaryAxis.axis]))

\* C40: in every line the minimum extent of the first element on the primary
\* axis is at the start offset of the line, and the minimum extent of every
\* later element is the maximum extent of the element before it plus the
\* spacing of the primary axis; the elements of a line share one start on the
\* secondary axis, and every line after the first starts at the start of the
\* line before it plus the resolved secondary size of that line plus the
\* spacing of the secondary axis.
C40_PlacedAlongLines ==
    Returned =>
        LET lines == layout.result.lines
        IN  /\ \A l \in DOMAIN lines : Len(lines[l]) > 0 =>
                   MinExtent(lines[l][1], PrimaryAxis) = LineStartOffset(l)
            /\ \A l \in DOMAIN lines : \A e \in 2..Len(lines[l]) :
                   MinExtent(lines[l][e], PrimaryAxis) =
                       Add(MaxExtent(lines[l][e - 1], PrimaryAxis),
                           layout.options.spacing[PrimaryAxis.axis])
            /\ \A l \in DOMAIN lines : \A e \in DOMAIN lines[l] :
                   SecondaryStart(l, lines[l][e]) = SecondaryStart(l, lines[l][1])
            /\ \A l \in 2..Len(lines) :
                   SecondaryStart(l, lines[l][1]) =
                       Add(SecondaryStart(l - 1, lines[l - 1][1]),
                           Add(layout.result.lineSizes[l - 1][SecondaryAxis.size],
                               layout.options.spacing[SecondaryAxis.axis]))

\* two lines, the first of two elements with different pivots and sizes,
\* spaced, padded and centred
C40_Witness ==
    /\ Returned
    /\ Len(layout.result.lines) = 2
    /\ Len(layout.result.lines[1]) = 2
    /\ LaidOut[1].pivot # LaidOut[2].pivot
    /\ LaidOut[1].pivot.x # R(0)
    /\ layout.options.spacing.x = R(1)
    /\ layout.options.padding.x = R(1)
    /\ layout.options.alignment.x = Half

====
